---------------------------- MODULE Spec2Model ----------------------------
(***************************************************************************)
(* A model of EMAV (src/emav_app.py): the custom Dataset-58 parser, the    *)
(* pyuff fallback of load_reconstructed_files, the interpolation onto a    *)
(* common grid, the validation metrics and their report, the validation    *)
(* handler, the export of a record, and the handlers of the testlab file   *)
(* and of the two trees with the state of the metrics button.              *)
(*                                                                         *)
(* Text.  A file is a sequence of lines; a line is the sequence of its     *)
(* whitespace-separated tokens (what str.split() yields, so a blank line   *)
(* is the empty sequence and leading/trailing blanks are gone, as after    *)
(* str.strip()).  A token is [form, v]:                                    *)
(*   "int"   a plain integer literal such as -1, 58, 2: int() and float()  *)
(*           accept it, it holds no e/E;                                   *)
(*   "dec"   a decimal literal such as 2.0: float() accepts it, int()      *)
(*           raises ValueError, it holds no e/E;                           *)
(*   "exp"   a literal with an exponent such as 2.0E+00: float() accepts   *)
(*           it, int() raises, it holds an e/E;                            *)
(*   "word"  text without e/E that float() rejects (NONE, Hz);             *)
(*   "worde" text with an e/E that float() rejects (Frequency).            *)
(* v is the number the literal denotes (an integer; 0 for words).          *)
(* Real numbers are exact here: the model has no rounding.                 *)
(***************************************************************************)
EXTENDS Integers, Sequences, FiniteSets, TLC

VARIABLES
    raw_text,    \* parser: the lines of the file handed to the parser
    parse_out,   \* parser: [done, ok, err, rec], the outcome of the call
    pc,          \* load_reconstructed_files: the position of the handler
    filepaths,   \* the files still to load (each file is its text)
    filepath,    \* the file being loaded
    custom_out,  \* the outcome of the custom parser on filepath
    log,         \* what has been done for filepath, in order
    filtered_content,  \* the text last written to the temporary file
    data_dict,   \* the record extracted for filepath
    successful,  \* load_reconstructed_files: files counted as loaded
    failed,      \* load_reconstructed_files: files counted as failed
    reconstructed_files,         \* file_iid -> [filepath, data]
    reconstructed_file_counter,
    recon_tree,  \* the iids of the nodes of the reconstructed tree
    x_source,    \* _interpolate_to_common_grid: the source frequencies
    y_source_complex,  \* the source samples, each [re, im]
    x_target,    \* the target frequencies
    aligned,     \* [done, y]: the interpolated samples, each [re, im] of fractions
    freq,        \* _compute_all_metrics: the frequency axis
    y_original,       \* its first signal, each sample [re, im]
    y_reconstructed,  \* its second signal
    results,     \* [done, ...]: the metrics
    testlab_file_type,           \* 'mat', 'unv' or None
    testlab_record_map,          \* iid -> record
    selected_testlab_iid,        \* an iid, or None
    selected_reconstructed_iid,  \* an iid, or None
    dialog,      \* the message box last shown
    report,      \* the text of the metrics pane, by its parts
    written,     \* save_selected_record: the record written to save_path
    calculate_metrics_button,    \* its state, "normal" or "disabled"
    save_button                  \* its state

parse_vars == <<raw_text, parse_out>>

load_vars ==
    <<pc, filepaths, filepath, custom_out, log, filtered_content, data_dict,
      successful, failed, reconstructed_files, reconstructed_file_counter, recon_tree>>

align_vars == <<x_source, y_source_complex, x_target, aligned>>

metrics_vars == <<freq, y_original, y_reconstructed, results>>

session_vars ==
    <<testlab_file_type, testlab_record_map, selected_testlab_iid,
      selected_reconstructed_iid, dialog, report, written, calculate_metrics_button,
      save_button>>

vars == <<parse_vars, load_vars, align_vars, metrics_vars, session_vars>>

-----------------------------------------------------------------------------
(* Bounds of the model. *)
MaxPoints == 2
MaxPayloadLines == 2
MaxFreeLines == 3
MaxPrefix == 100
MaxGap == 93
MaxFiles == 2
MaxSource == 3
MaxTarget == 2
MaxSignal == 3

-----------------------------------------------------------------------------
(* Tokens and lines. *)
I(v) == [form |-> "int", v |-> v]
D(v) == [form |-> "dec", v |-> v]
E(v) == [form |-> "exp", v |-> v]
W == [form |-> "word", v |-> 0]
We == [form |-> "worde", v |-> 0]

Sentinel == <<I(-1)>>
Marker58 == <<I(58)>>
Marker151 == <<I(151)>>
Blank == <<>>

\* float(token) succeeds
IsFloat(tok) == tok.form \in {"int", "dec", "exp"}
\* int(token) succeeds
IsInt(tok) == tok.form = "int"
\* 'E' in line or 'e' in line
HasE(line) == \E k \in 1..Len(line) : line[k].form \in {"exp", "worde"}
\* line.strip() == '-1'
IsSentinel(line) == line = Sentinel

Min(a, b) == IF a < b THEN a ELSE b
Max(a, b) == IF a > b THEN a ELSE b

-----------------------------------------------------------------------------
(* Outcomes of a call: a returned record or a raised exception. *)
NoRecord == [type |-> 0, x |-> <<>>, data |-> <<>>, data_type |-> 0, num_points |-> 0]
Raise(kind) == [ok |-> FALSE, err |-> kind, rec |-> NoRecord]
Return(r) == [ok |-> TRUE, err |-> "none", rec |-> r]

-----------------------------------------------------------------------------
(* _parse_reconstructed_unv, lines 711-722: the marker search.  Indices i  *)
(* are the source's 0-based indices; lines[i] of the source is lines[i+1]. *)
(* The loop runs i upward from its start and stops at the first index that *)
(* passes the test; the result is the index after the pair, or -1.          *)
FindMarkerNoTag(lines, i) ==
    LET hits == {k \in i..(Len(lines) - 1) : IsSentinel(lines[k + 1])}
    IN  IF hits = {} THEN -1
        ELSE (CHOOSE k \in hits : \A j \in hits : k <= j) + 2

FindMarker(lines, i) ==
    LET hits == {k \in i..(Len(lines) - 1) :
                    /\ IsSentinel(lines[k + 1])
                    /\ k + 1 < Len(lines)
                    /\ lines[k + 2] = Marker58}
    IN  IF hits = {} THEN -1
        ELSE (CHOOSE k \in hits : \A j \in hits : k <= j) + 2


-----------------------------------------------------------------------------
(* Lines 724-742: the metadata line and the data characteristic line.      *)
(* lines[i] past the end of the list raises IndexError; int() and float()  *)
(* of a token they reject raise ValueError.                                *)
Header(dt, n, sp, xmin, xinc) ==
    [ok |-> TRUE, err |-> "none", data_type |-> dt, num_points |-> n,
     spacing_type |-> sp, x_min |-> xmin, x_increment_or_max |-> xinc]
HeaderRaise(kind) ==
    [ok |-> FALSE, err |-> kind, data_type |-> 0, num_points |-> 0,
     spacing_type |-> 0, x_min |-> 0, x_increment_or_max |-> 0]

\* i is the index right after the marker pair
DecodeHeader(lines, i) ==
    IF i >= Len(lines) THEN HeaderRaise("IndexError")          \* lines[i], line 724
    ELSE IF i + 1 >= Len(lines) THEN HeaderRaise("IndexError") \* lines[i], line 727
    ELSE LET data_char_line == lines[i + 2] IN
        IF Len(data_char_line) < 3 THEN HeaderRaise("ValueError")
        ELSE IF \E k \in 1..3 : ~IsInt(data_char_line[k]) THEN HeaderRaise("ValueError")
        ELSE IF Len(data_char_line) >= 6
             THEN IF ~IsFloat(data_char_line[4]) \/ ~IsFloat(data_char_line[5])
                  THEN HeaderRaise("ValueError")
                  ELSE Header(data_char_line[1].v, data_char_line[2].v,
                              data_char_line[3].v, data_char_line[4].v,
                              data_char_line[5].v)
             ELSE Header(data_char_line[1].v, data_char_line[2].v,
                         data_char_line[3].v, 0, 1)

-----------------------------------------------------------------------------
(* Lines 744-771: the scan for the first payload line.  The result is the  *)
(* index of that line, NotLocated when the text ends first (line 771), or  *)
(* WindowExhausted when i exceeds ScanLimit (line 768); both raise         *)
(* ValueError.                                                             *)
ScanLimit == 100
axis_lines_to_skip == 4
NotLocated == -1
WindowExhausted == -2

IsDataStart(line) ==
    /\ HasE(line)
    /\ Len(line) >= 2
    /\ IsFloat(line[1])
    /\ IsFloat(line[2])

\* the loop examines the lines from index i up to the first payload start
\* (or the end); after each line that is none it steps on and raises when
\* the new index exceeds ScanLimit
ScanDataStart(lines, i) ==
    LET hits == {k \in i..(Len(lines) - 1) : IsDataStart(lines[k + 1])}
        stop == IF hits = {} THEN Len(lines) ELSE CHOOSE k \in hits : \A j \in hits : k <= j
    IN  IF stop > i /\ stop > ScanLimit THEN WindowExhausted
        ELSE IF hits = {} THEN NotLocated
        ELSE stop

-----------------------------------------------------------------------------
(* Lines 774-803: the accumulation of the payload values. *)
RECURSIVE FloatsOf(_)
FloatsOf(line) ==
    IF line = <<>> THEN <<>>
    ELSE (IF IsFloat(Head(line)) THEN <<Head(line).v>> ELSE <<>>) \o FloatsOf(Tail(line))

RECURSIVE Accumulate(_, _, _, _, _)
Accumulate(lines, i, data_values, lines_parsed, num_points) ==
    IF ~(i < Len(lines) /\ Len(data_values) < num_points * 2) THEN data_values
    ELSE LET line == lines[i + 1] IN
        IF IsSentinel(line) THEN data_values
        ELSE IF line = Blank
             THEN Accumulate(lines, i + 1, data_values, lines_parsed, num_points)
        ELSE LET collected == data_values \o FloatsOf(line) IN
            IF lines_parsed + 1 > num_points * 3 THEN collected
            ELSE Accumulate(lines, i + 1, collected, lines_parsed + 1, num_points)

-----------------------------------------------------------------------------
(* Lines 807-812: zero padding, truncation and the reshape to rows of 2.   *)
Zeros(k) == [j \in 1..k |-> 0]

PadZerosFront(data_values, num_points) ==
    IF Len(data_values) < num_points * 2
    THEN Zeros(num_points * 2 - Len(data_values)) \o data_values
    ELSE data_values

PadZeros(data_values, num_points) ==
    IF Len(data_values) < num_points * 2
    THEN data_values \o Zeros(num_points * 2 - Len(data_values))
    ELSE data_values

\* seq[:stop] of Python
SliceTo(seq, stop) ==
    IF stop >= 0 THEN SubSeq(seq, 1, Min(stop, Len(seq)))
    ELSE SubSeq(seq, 1, Max(0, Len(seq) + stop))

\* numpy reshape(rows, 2): rows = -1 is inferred from the size, any other
\* negative row count and a size other than rows * 2 raise ValueError
ReshapeOk(flat, rows) ==
    IF rows = -1 THEN Len(flat) % 2 = 0
    ELSE rows >= 0 /\ Len(flat) = rows * 2

ReshapeColumnMajor(flat, rows) ==
    [r \in 1..(Len(flat) \div 2) |-> <<flat[r], flat[r + Len(flat) \div 2]>>]

Reshape(flat, rows) ==
    [r \in 1..(Len(flat) \div 2) |-> <<flat[2 * r - 1], flat[2 * r]>>]

-----------------------------------------------------------------------------
(* Lines 814-820: the frequency axis.  A sample is the fraction <<n, d>>,  *)
(* d > 0, so that the evenly spaced samples of linspace are exact.         *)
Frac(n, d) == <<n, d>>
FracEq(a, b) == a[1] * b[2] = b[1] * a[2]
FracLe(a, b) == a[1] * b[2] <= b[1] * a[2]

\* np.linspace(start, stop, num): ValueError when num < 0
Linspace(start, stop, num) ==
    IF num = 1 THEN <<Frac(start, 1)>>
    ELSE [k \in 1..num |-> Frac(start * (num - 1) + (k - 1) * (stop - start), num - 1)]

\* np.arange(num) * step + start
Arange(start, step, num) ==
    [k \in 1..num |-> Frac(start + (k - 1) * step, 1)]

UseEndpointsLoose(h) ==
    h.spacing_type = 1 /\ h.x_increment_or_max > h.x_min

UseEndpoints(h) ==
    h.spacing_type = 1 /\ h.x_increment_or_max > h.x_min + 1

AxisRaises(h) == UseEndpoints(h) /\ h.num_points < 0

BuildAxis(h) ==
    IF UseEndpoints(h)
    THEN Linspace(h.x_min, h.x_increment_or_max, h.num_points)
    ELSE Arange(h.x_min, h.x_increment_or_max, h.num_points)

-----------------------------------------------------------------------------
(* Lines 822-832: the record and the closing report, whose x_data[0] and   *)
(* x_data[-1] raise IndexError on an empty axis.                           *)
ReportNoCheck(rec) == Return(rec)

Report(rec) ==
    IF Len(rec.x) = 0 THEN Raise("IndexError") ELSE Return(rec)

(* Lines 744-832 after a decoded header h; i is the index after the         *)
(* characteristic line.                                                     *)
ParsePayload(lines, i, h) ==
    LET start == ScanDataStart(lines, i + axis_lines_to_skip) IN
    IF start < 0 THEN Raise("ValueError")
    ELSE LET data_values == Accumulate(lines, start, <<>>, 0, h.num_points)
             padded == PadZeros(data_values, h.num_points)
             flat == SliceTo(padded, h.num_points * 2)
         IN  IF ~ReshapeOk(flat, h.num_points) THEN Raise("ValueError")
             ELSE IF AxisRaises(h) THEN Raise("ValueError")
             ELSE Report([type |-> 58,
                          x |-> BuildAxis(h),
                          data |-> Reshape(flat, h.num_points),
                          data_type |-> h.data_type,
                          num_points |-> h.num_points])

(* _parse_reconstructed_unv, lines 703-832. *)
parse_reconstructed_unv(lines) ==
    LET i == FindMarker(lines, 0) IN
    IF i < 0 THEN Raise("ValueError")
    ELSE LET h == DecodeHeader(lines, i) IN
         IF ~h.ok THEN Raise(h.err)
         ELSE ParsePayload(lines, i + 2, h)

-----------------------------------------------------------------------------
(* The texts the parser is run on. *)
MetaLine == <<W>>
\* an axis line such as "18 0 0 Frequency": it holds an e and starts with two
\* numbers, so only its being skipped keeps it from being the payload start
AxisLine == <<I(18), I(0), We>>
AxisLines == <<AxisLine, AxisLine, AxisLine, AxisLine>>

\* the characteristic line: data_type, num_points, spacing_type, x_min,
\* x_increment_or_max, z value, cut to its first ntok tokens
CharLine(dt, n, sp, xmin, xinc, ntok) ==
    SubSeq(<<dt, I(n), I(sp), xmin, xinc, D(0)>>, 1, ntok)

Block(char, payload) == <<Sentinel, Marker58, MetaLine, char>> \o AxisLines \o payload

RECURSIVE SeqsUpTo(_, _)
SeqsUpTo(S, n) ==
    IF n = 0 THEN {<<>>}
    ELSE LET shorter == SeqsUpTo(S, n - 1)
         IN  shorter \cup {Append(q, e) : q \in shorter, e \in S}

RowA == <<E(1), E(2)>>
RowB == <<E(3), E(4)>>
RowNoExp == <<D(5), D(6)>>
RowHalfExp == <<D(7), E(8)>>
RowWide == <<E(1), E(2), E(3), E(4)>>
RowOneValue == <<E(9)>>
RowValueWord == <<E(9), W>>
RowWordValue == <<We, E(9)>>

PayloadAlphabet ==
    {RowA, RowB, RowNoExp, RowHalfExp, RowWide, RowOneValue, RowValueWord,
     RowWordValue, Blank}

Payloads == SeqsUpTo(PayloadAlphabet, MaxPayloadLines)
Tails == {<<>>, <<Sentinel>>, <<Sentinel, RowB>>}

XMins == {0, 1}
XIncs == {-1, 0, 1, 2, 3}

GoodCharLines ==
    {CharLine(I(2), n, sp, D(xmin), D(xinc), ntok) :
        n \in (-2)..MaxPoints, sp \in {0, 1}, xmin \in XMins, xinc \in XIncs,
        ntok \in {3, 5, 6}}

BadCharLines ==
    {<<>>, <<I(2)>>, <<I(2), I(1)>>,
     <<D(2), I(1), I(0)>>, <<I(2), D(1), I(0)>>, <<I(2), I(1), E(0)>>,
     <<I(2), W, I(0)>>,
     <<I(2), I(1), I(0), W, D(1), D(0)>>, <<I(2), I(1), I(0), D(0), We, D(0)>>}

\* every header over two payloads
HeaderTexts ==
    {Block(c, p) : c \in GoodCharLines \cup BadCharLines,
                   p \in {<<RowA, RowB>>, <<RowNoExp, RowB>>}}

\* every payload under a plain header, alone or after a dataset 151 block
Prefix151 == <<Sentinel, Marker151, <<W>>, Sentinel>>

PayloadTexts ==
    {pre \o Block(CharLine(I(2), n, 0, D(0), D(2), ntok), p) \o t :
        pre \in {<<>>, Prefix151}, n \in 0..MaxPoints, ntok \in {5, 6},
        p \in Payloads, t \in Tails}

\* short texts over the marker lines, most of them without a marker pair
FreeAlphabet == {Sentinel, Marker58, <<D(-1)>>, <<I(58), W>>, RowA}
FreeTexts == SeqsUpTo(FreeAlphabet, MaxFreeLines)

\* a block cut short at every length
FullBlock == Block(CharLine(I(2), 1, 0, D(0), D(2), 6), <<RowA>>)
TruncatedTexts == {SubSeq(FullBlock, 1, k) : k \in 0..Len(FullBlock)}

\* a payload whose first line is followed by lines that yield no value, as
\* many as it takes to pass the bound of num_points * 3 parsed lines
JunkLines(k) == [j \in 1..k |-> <<W>>]
LongPayloadTexts ==
    {Block(CharLine(I(2), n, 0, D(0), D(2), 6), <<RowA>> \o JunkLines(k) \o <<RowB>>) \o t :
        n \in 1..MaxPoints, k \in 0..(3 * MaxPoints + 2), t \in {<<>>, <<Sentinel>>}}

\* a block that starts after MaxPrefix lines or fewer, and whose payload
\* starts MaxGap lines or fewer after the axis lines
LateTexts ==
    {JunkLines(k) \o Block(CharLine(I(2), 1, 0, D(0), D(2), 6), JunkLines(g) \o <<RowA>>) :
        k \in {0, MaxPrefix - 9, MaxPrefix - 8, MaxPrefix}, g \in {0, 1, 2}}
    \cup {Block(CharLine(I(2), 1, 0, D(0), D(2), 6), JunkLines(g) \o <<RowA>>) :
              g \in {MaxGap - 1, MaxGap}}

Texts ==
    HeaderTexts \cup PayloadTexts \cup FreeTexts \cup TruncatedTexts \cup LongPayloadTexts
        \cup LateTexts

-----------------------------------------------------------------------------
(* The parser run on a text. *)
NotCalled == [done |-> FALSE, ok |-> FALSE, err |-> "none", rec |-> NoRecord]
Called(out) == [done |-> TRUE, ok |-> out.ok, err |-> out.err, rec |-> out.rec]

\* the application as constructed (lines 32-42): nothing loaded
LoadIdle ==
    /\ pc = "idle"
    /\ filepaths = <<>>
    /\ filepath = <<>>
    /\ custom_out = NotCalled
    /\ log = <<>>
    /\ filtered_content = <<>>
    /\ data_dict = NoRecord
    /\ successful = 0
    /\ failed = 0
    /\ reconstructed_files = <<>>
    /\ reconstructed_file_counter = 0
    /\ recon_tree = {}

\* no interpolation and no metrics asked for
NoResults == [done |-> FALSE]
NotAligned == [done |-> FALSE, y |-> <<>>]
ValidationIdle ==
    /\ x_source = <<>>
    /\ y_source_complex = <<>>
    /\ x_target = <<>>
    /\ aligned = NotAligned
    /\ freq = <<>>
    /\ y_original = <<>>
    /\ y_reconstructed = <<>>
    /\ results = NoResults

\* the application as constructed (lines 32-42): no testlab file, nothing
\* selected, no message box, an empty metrics pane, nothing saved
\* an iid is a number; NoIid stands for the None of an empty selection
PyNone == "None"
NoIid == -1
NoReport == [shown |-> FALSE]
NoDialog == [kind |-> "none", title |-> "", message |-> ""]
SessionIdle ==
    /\ testlab_file_type = PyNone
    /\ testlab_record_map = <<>>
    /\ calculate_metrics_button = "disabled"
    /\ save_button = "disabled"
    /\ selected_testlab_iid = NoIid
    /\ selected_reconstructed_iid = NoIid
    /\ dialog = NoDialog
    /\ report = NoReport
    /\ written = NoRecord

InitParse ==
    /\ raw_text \in Texts
    /\ parse_out = NotCalled
    /\ LoadIdle
    /\ ValidationIdle
    /\ SessionIdle

Parse ==
    /\ ~parse_out.done
    /\ parse_out' = Called(parse_reconstructed_unv(raw_text))
    /\ UNCHANGED <<raw_text, load_vars, align_vars, metrics_vars, session_vars>>

NextParse == Parse

SpecParse == InitParse /\ [][NextParse]_vars

-----------------------------------------------------------------------------
(* Claims about the parser. *)

\* the text holds a line '-1' immediately followed by a line '58'
HasMarkerPair(lines) ==
    \E k \in 1..(Len(lines) - 1) : IsSentinel(lines[k]) /\ lines[k + 1] = Marker58

(* C1: a text with no '-1' line immediately followed by a '58' line makes   *)
(* the parser raise ValueError and return no record.                        *)
C1_NoMarkerFails ==
    (parse_out.done /\ ~HasMarkerPair(raw_text))
        => (~parse_out.ok /\ parse_out.err = "ValueError" /\ parse_out.rec = NoRecord)

\* the parser has failed on a text that holds a '-1' line and a '58' line,
\* but never one right after the other
C1_Witness ==
    /\ parse_out.done
    /\ ~HasMarkerPair(raw_text)
    /\ \E k \in 1..Len(raw_text) : IsSentinel(raw_text[k])
    /\ \E k \in 1..Len(raw_text) : raw_text[k] = Marker58
    /\ parse_out.err = "ValueError"

-----------------------------------------------------------------------------
(* The parts of a text, read off the text itself (1-based positions). *)

\* the position of the first marker pair's '-1' line
MarkerPos(lines) ==
    CHOOSE k \in 1..(Len(lines) - 1) :
        /\ IsSentinel(lines[k]) /\ lines[k + 1] = Marker58
        /\ \A j \in 1..(k - 1) : ~(IsSentinel(lines[j]) /\ lines[j + 1] = Marker58)

CharPos(lines) == MarkerPos(lines) + 3
\* the first line after the four axis lines
PayloadPos(lines) == MarkerPos(lines) + 8

\* the characteristic line is there and its first three tokens are integers
CharDecodes(lines) ==
    /\ HasMarkerPair(lines)
    /\ CharPos(lines) <= Len(lines)
    /\ LET c == lines[CharPos(lines)] IN
        /\ Len(c) >= 3
        /\ \A k \in 1..3 : IsInt(c[k])
        /\ Len(c) >= 6 => (IsFloat(c[4]) /\ IsFloat(c[5]))

CharN(lines) == lines[CharPos(lines)][2].v
CharSpacing(lines) == lines[CharPos(lines)][3].v
CharXMin(lines) ==
    LET c == lines[CharPos(lines)] IN IF Len(c) >= 6 THEN c[4].v ELSE 0
CharXInc(lines) ==
    LET c == lines[CharPos(lines)] IN IF Len(c) >= 6 THEN c[5].v ELSE 1

\* a row of exactly two real numbers, in any textual form
IsRow(line) == Len(line) = 2 /\ IsFloat(line[1]) /\ IsFloat(line[2])

(* The well-formed minimal input of the round trip: the marker pair, a      *)
(* metadata line, a characteristic line that starts 2, N, 0, 0, D, four     *)
(* axis lines and exactly N rows, optionally closed by a '-1' line.         *)
WellFormedMinimal(lines) ==
    /\ Len(lines) >= 8
    /\ lines[1] = Sentinel /\ lines[2] = Marker58
    /\ LET c == lines[4] IN
        /\ Len(c) >= 5
        /\ c[1] = I(2) /\ IsInt(c[2]) /\ c[3] = I(0)
        /\ IsFloat(c[4]) /\ c[4].v = 0 /\ IsFloat(c[5])
        /\ c[2].v >= 0
        /\ \/ Len(lines) = 8 + c[2].v
           \/ Len(lines) = 9 + c[2].v /\ lines[Len(lines)] = Sentinel
        /\ \A r \in 1..c[2].v : IsRow(lines[8 + r])

\* the Record is the round trip of the text: axis[k] = k * D, response = rows
RoundTrips(lines, out) ==
    LET n == lines[4][2].v
        step == lines[4][5].v
    IN  /\ out.ok
        /\ Len(out.rec.x) = n
        /\ \A k \in 1..n : FracEq(out.rec.x[k], Frac((k - 1) * step, 1))
        /\ out.rec.data = [r \in 1..n |-> <<lines[8 + r][1].v, lines[8 + r][2].v>>]

-----------------------------------------------------------------------------
(* Padding. *)

\* the position of the payload start: the first line from PayloadPos on that
\* holds an e/E and starts with two reals (0 when there is none)
DataStartPos(lines) ==
    LET hits == {k \in PayloadPos(lines)..Len(lines) : IsDataStart(lines[k])}
    IN  IF hits = {} THEN 0 ELSE CHOOSE k \in hits : \A j \in hits : k <= j

\* the real tokens on the lines from position k up to a '-1' line or the end
RECURSIVE TokensBeforeSentinel(_, _)
TokensBeforeSentinel(lines, k) ==
    IF k > Len(lines) \/ IsSentinel(lines[k]) THEN <<>>
    ELSE FloatsOf(lines[k]) \o TokensBeforeSentinel(lines, k + 1)

\* the same, stopping after `budget` non-blank lines
RECURSIVE TokensWithin(_, _, _)
TokensWithin(lines, k, budget) ==
    IF k > Len(lines) \/ IsSentinel(lines[k]) \/ budget = 0 THEN <<>>
    ELSE IF lines[k] = Blank THEN TokensWithin(lines, k + 1, budget)
    ELSE FloatsOf(lines[k]) \o TokensWithin(lines, k + 1, budget - 1)

\* the response read row-major
RECURSIVE Flatten(_)
Flatten(rows) ==
    IF rows = <<>> THEN <<>> ELSE Head(rows) \o Flatten(Tail(rows))

PaddedWith(out, values, n) ==
    /\ out.ok
    /\ Flatten(out.rec.data) = values \o Zeros(2 * n - Len(values))

(* C3, as stated: whenever the payload (the lines after the axis lines)     *)
(* yields fewer than point_count * 2 real tokens before the '-1' sentinel   *)
(* or the end of input, the parser returns them followed by zeros.          *)
C3_AsStated ==
    (/\ parse_out.done
     /\ CharDecodes(raw_text)
     /\ Len(TokensBeforeSentinel(raw_text, PayloadPos(raw_text))) < 2 * CharN(raw_text))
        => PaddedWith(parse_out, TokensBeforeSentinel(raw_text, PayloadPos(raw_text)),
                      CharN(raw_text))

(* C3, amended: whenever the payload start has been located within the scan *)
(* window and the lines from it up to the '-1' sentinel, the end of input   *)
(* or the (point_count * 3 + 1)-th non-blank line yield fewer than          *)
(* point_count * 2 real tokens, the parser does not raise and the response, *)
(* read row-major, is those values in order followed by zeros.              *)
C3_Padding ==
    (/\ parse_out.done
     /\ CharDecodes(raw_text)
     /\ DataStartPos(raw_text) # 0
     /\ DataStartPos(raw_text) <= ScanLimit + 1
     /\ Len(TokensWithin(raw_text, DataStartPos(raw_text), 3 * CharN(raw_text) + 1))
            < 2 * CharN(raw_text))
        => PaddedWith(parse_out,
                      TokensWithin(raw_text, DataStartPos(raw_text), 3 * CharN(raw_text) + 1),
                      CharN(raw_text))

\* three values collected for two points, the fourth padded
C3_Witness ==
    /\ parse_out.done
    /\ CharDecodes(raw_text)
    /\ CharN(raw_text) = 2
    /\ DataStartPos(raw_text) # 0
    /\ Len(TokensWithin(raw_text, DataStartPos(raw_text), 7)) = 3
    /\ parse_out.ok
    /\ parse_out.rec.data[2][2] = 0
    /\ parse_out.rec.data[2][1] # 0

-----------------------------------------------------------------------------
(* The axis and the shape of the record. *)

\* point_count evenly spaced samples from a to b inclusive
EvenlySpaced(x, a, b, n) ==
    /\ Len(x) = n
    /\ \A k \in 1..n :
          IF n = 1 THEN FracEq(x[k], Frac(a, 1))
          ELSE FracEq(x[k], Frac(a * (n - 1) + (k - 1) * (b - a), n - 1))

\* axis[k] = x_min + k * step, k counted from 0
Stepped(x, a, step, n) ==
    /\ Len(x) = n
    /\ \A k \in 1..n : FracEq(x[k], Frac(a + (k - 1) * step, 1))

(* C4: the axis of a returned record is point_count evenly spaced samples   *)
(* from x_min to x_increment_or_max when spacing_type = 1 and               *)
(* x_increment_or_max > x_min + 1, and x_min + k * x_increment_or_max       *)
(* otherwise; both are the 4th and 5th tokens of a characteristic line of   *)
(* at least 6 tokens, else 0 and 1.                                         *)
C4_AxisRule ==
    (parse_out.done /\ parse_out.ok) =>
        LET a == CharXMin(raw_text)
            b == CharXInc(raw_text)
            n == CharN(raw_text)
        IN  IF CharSpacing(raw_text) = 1 /\ b > a + 1
            THEN EvenlySpaced(parse_out.rec.x, a, b, n)
            ELSE Stepped(parse_out.rec.x, a, b, n)

\* a returned record whose header has spacing_type = 1 and the 5th token
\* exactly x_min + 1, at the threshold: the axis is stepped, and differs from
\* the evenly spaced one
C4_Witness ==
    /\ parse_out.done /\ parse_out.ok
    /\ CharSpacing(raw_text) = 1
    /\ Len(raw_text[CharPos(raw_text)]) >= 6
    /\ CharXInc(raw_text) = CharXMin(raw_text) + 1
    /\ CharN(raw_text) >= 2
    /\ Stepped(parse_out.rec.x, CharXMin(raw_text), CharXInc(raw_text), CharN(raw_text))
    /\ ~EvenlySpaced(parse_out.rec.x, CharXMin(raw_text), CharXInc(raw_text), CharN(raw_text))

(* C5: every record the parser returns has point_count >= 1, an axis of     *)
(* point_count samples and a response of point_count rows of 2 columns.     *)
C5_RecordShape ==
    (parse_out.done /\ parse_out.ok) =>
        /\ parse_out.rec.num_points >= 1
        /\ Len(parse_out.rec.x) = parse_out.rec.num_points
        /\ Len(parse_out.rec.data) = parse_out.rec.num_points
        /\ \A r \in 1..Len(parse_out.rec.data) : Len(parse_out.rec.data[r]) = 2

\* a record returned for one point from a payload of more than two values
C5_Witness ==
    /\ parse_out.done /\ parse_out.ok
    /\ CharN(raw_text) = 1
    /\ Len(TokensBeforeSentinel(raw_text, DataStartPos(raw_text))) > 2
    /\ Len(parse_out.rec.data) = 1

(* C6, as stated: with the marker pair found, a characteristic line that    *)
(* has fewer than 3 tokens, is absent because the text ends first, or has   *)
(* a non-integer among its first three tokens makes the parser raise        *)
(* ValueError and no other kind of error.                                   *)
C6_AsStated ==
    (/\ parse_out.done
     /\ HasMarkerPair(raw_text)
     /\ \/ CharPos(raw_text) > Len(raw_text)
        \/ Len(raw_text[CharPos(raw_text)]) < 3
        \/ \E k \in 1..3 : ~IsInt(raw_text[CharPos(raw_text)][k]))
        => (~parse_out.ok /\ parse_out.err = "ValueError")

-----------------------------------------------------------------------------
(* load_reconstructed_files, lines 325-339: the filter that drops the       *)
(* dataset 151 blocks before the text is handed to pyuff.                   *)

\* lines 331-334: the index of the next '-1' line from i on, or len(lines)
RECURSIVE SkipToSentinel(_, _)
SkipToSentinel(lines, i) ==
    IF i >= Len(lines) THEN i
    ELSE IF IsSentinel(lines[i + 1]) THEN i
    ELSE SkipToSentinel(lines, i + 1)

RECURSIVE FilterFrom(_, _, _)
FilterFrom(lines, i, output_lines) ==
    IF i >= Len(lines) THEN output_lines
    ELSE IF lines[i + 1] = Marker151 /\ i > 0 /\ IsSentinel(lines[i])
         THEN FilterFrom(lines, SkipToSentinel(lines, i + 1) + 1, output_lines)
         ELSE FilterFrom(lines, i + 1, Append(output_lines, lines[i + 1]))

Filter151(lines) == FilterFrom(lines, 0, <<>>)

\* lines 657 and 860: the record of the selected iid
testlab_record ==
    IF selected_testlab_iid \in DOMAIN testlab_record_map
    THEN testlab_record_map[selected_testlab_iid]
    ELSE NoRecord

\* lines 519-524, update_metrics_button_state
update_metrics_button_state(testlab_iid, reconstructed_iid) ==
    IF testlab_iid # NoIid /\ reconstructed_iid # NoIid THEN "normal" ELSE "disabled"

-----------------------------------------------------------------------------
(* load_reconstructed_files, lines 290-398, step by step.  The handler runs *)
(* to its end before any other handler starts (pc = "idle").                *)

\* what pyuff's read_sets may do with the filtered file: raise, or return an
\* empty list, one set as a dict, or a list of sets; "other" is a list whose
\* first set is not a function (a units set, say): data[0] is taken as it is
PyuffOutcomes == {"raise", "empty", "dict", "list", "other"}
\* a set without the keys 'x' and 'data'
PyuffOtherSet == [type |-> 164, x |-> <<>>, data |-> <<>>, data_type |-> 0, num_points |-> 0]
HasAbscissa(rec) == rec.type = 58
PyuffRecord ==
    [type |-> 58, x |-> <<Frac(0, 1), Frac(1, 1)>>, data |-> <<<<7, 0>>, <<8, 0>>>>,
     data_type |-> 5, num_points |-> 2]

\* line 316, except Exception: every exception of the custom parser is caught
CaughtValueErrorOnly(err) == err = "ValueError"

CaughtByFallback(err) == TRUE

\* the files offered by the dialog
LoaderTexts ==
    {Block(CharLine(I(2), 1, 0, D(0), D(2), 6), <<RowA>>),
     Prefix151 \o Block(CharLine(I(2), 1, 0, D(0), D(2), 6), <<RowB>>),
     Prefix151 \o Block(CharLine(I(2), 1, 0, D(0), D(2), 6), <<RowNoExp>>) \o <<Sentinel>>,
     <<Sentinel, Marker58>>,
     <<Sentinel, Marker151, <<W>>, <<W>>, Sentinel, Sentinel, Marker151, <<W>>, Sentinel>>,
     <<Sentinel, Marker151, <<W>>>>,
     <<<<W>>, Marker151, <<W>>, Sentinel>>,
     <<Sentinel, Marker151, Sentinel, Marker151, <<W>>, Sentinel, RowNoExp>>}

Batches == SeqsUpTo(LoaderTexts, MaxFiles) \ {<<>>}

\* lines 290-302: the dialog returns a non-empty selection, one of batches
StartLoadOf(batches) ==
    /\ pc = "idle"
    /\ \E paths \in batches :
        /\ reconstructed_file_counter + Len(paths) <= MaxFiles
        /\ filepath' = Head(paths)
        /\ filepaths' = Tail(paths)
    /\ successful' = 0
    /\ failed' = 0
    /\ pc' = "custom"
    /\ UNCHANGED <<custom_out, log, filtered_content, data_dict, reconstructed_files,
                   reconstructed_file_counter, recon_tree>>

StartLoad == StartLoadOf(Batches)

\* lines 383-387 and the loop header 304: count the failure, go to the next file
NextPc(rest) == IF rest = <<>> THEN "finish" ELSE "custom"
NextFilepath(rest) == IF rest = <<>> THEN <<>> ELSE Head(rest)
NextFilepaths(rest) == IF rest = <<>> THEN <<>> ELSE Tail(rest)

\* lines 309-318: the custom parser is tried first
TryCustom ==
    /\ pc = "custom"
    /\ LET out == parse_reconstructed_unv(filepath) IN
        /\ custom_out' = Called(out)
        /\ log' = <<"custom">>
        /\ IF out.ok
           THEN /\ data_dict' = out.rec
                /\ pc' = "register"
                /\ UNCHANGED <<failed, filepath, filepaths>>
           ELSE IF CaughtByFallback(out.err)
           THEN /\ pc' = "fallback"
                /\ UNCHANGED <<data_dict, failed, filepath, filepaths>>
           ELSE /\ failed' = failed + 1
                /\ pc' = NextPc(filepaths)
                /\ filepath' = NextFilepath(filepaths)
                /\ filepaths' = NextFilepaths(filepaths)
                /\ UNCHANGED data_dict
    /\ UNCHANGED <<filtered_content, successful, reconstructed_files,
                   reconstructed_file_counter, recon_tree>>

\* lines 320-358: filter, temporary file, pyuff, removal of the temporary file
Fallback ==
    /\ pc = "fallback"
    /\ filtered_content' = Filter151(filepath)
    /\ log' = log \o <<"filter", "tempfile", "pyuff", "remove">>
    /\ \E outcome \in PyuffOutcomes :
        IF outcome \in {"dict", "list", "other"}
        THEN /\ data_dict' = IF outcome = "other" THEN PyuffOtherSet ELSE PyuffRecord
             /\ pc' = "register"
             /\ UNCHANGED <<failed, filepath, filepaths>>
        ELSE /\ failed' = failed + 1
             /\ pc' = NextPc(filepaths)
             /\ filepath' = NextFilepath(filepaths)
             /\ filepaths' = NextFilepaths(filepaths)
             /\ UNCHANGED data_dict
    /\ UNCHANGED <<custom_out, successful, reconstructed_files,
                   reconstructed_file_counter, recon_tree>>

\* ttk.Treeview.insert with iid: TclError when the tree already has the item
TreeHas(tree, iid) == iid \in tree

\* lines 360-381: the entry of reconstructed_files and the two tree nodes,
\* the file node and the record node, both inserted with iid = file_iid;
\* between them line 377 reads len(data_dict['x']), a KeyError without 'x'
Register ==
    /\ pc = "register"
    /\ LET file_iid == reconstructed_file_counter
           tree1 == recon_tree \cup {file_iid}
       IN  /\ reconstructed_file_counter' = reconstructed_file_counter + 1
           /\ reconstructed_files' =
                [k \in 1..(Len(reconstructed_files) + 1) |->
                    IF k <= Len(reconstructed_files) THEN reconstructed_files[k]
                    ELSE [iid |-> file_iid, filepath |-> filepath, data |-> data_dict]]
           /\ recon_tree' = tree1
           /\ IF ~HasAbscissa(data_dict) \/ TreeHas(tree1, file_iid)
              THEN failed' = failed + 1 /\ UNCHANGED successful
              ELSE successful' = successful + 1 /\ UNCHANGED failed
    /\ log' = Append(log, "register")
    /\ pc' = NextPc(filepaths)
    /\ filepath' = NextFilepath(filepaths)
    /\ filepaths' = NextFilepaths(filepaths)
    /\ UNCHANGED <<custom_out, filtered_content, data_dict>>

\* lines 389-398: the status line, and the state of the metrics button when
\* a file was counted as successful; the handler returns and its locals end
FinishLoad ==
    /\ pc = "finish"
    /\ pc' = "idle"
    /\ calculate_metrics_button' =
           IF successful > 0
           THEN update_metrics_button_state(selected_testlab_iid, selected_reconstructed_iid)
           ELSE calculate_metrics_button
    /\ custom_out' = NotCalled
    /\ log' = <<>>
    /\ filtered_content' = <<>>
    /\ data_dict' = NoRecord
    /\ successful' = 0
    /\ failed' = 0
    /\ UNCHANGED <<filepaths, filepath, reconstructed_files, reconstructed_file_counter,
                   recon_tree>>

ParseIdle ==
    /\ raw_text = <<>>
    /\ parse_out = NotCalled

InitLoad ==
    /\ ParseIdle
    /\ LoadIdle
    /\ ValidationIdle
    /\ SessionIdle

LoadSteps ==
    \/ TryCustom /\ UNCHANGED <<parse_vars, align_vars, metrics_vars, session_vars>>
    \/ Fallback /\ UNCHANGED <<parse_vars, align_vars, metrics_vars, session_vars>>
    \/ Register /\ UNCHANGED <<parse_vars, align_vars, metrics_vars, session_vars>>
    \/ FinishLoad /\ UNCHANGED <<parse_vars, align_vars, metrics_vars, testlab_file_type,
                                 testlab_record_map, selected_testlab_iid,
                                 selected_reconstructed_iid, dialog, report, written,
                                 save_button>>

NextLoad ==
    \/ StartLoad /\ UNCHANGED <<parse_vars, align_vars, metrics_vars, session_vars>>
    \/ LoadSteps

SpecLoad == InitLoad /\ [][NextLoad]_vars

-----------------------------------------------------------------------------
(* Claims about the fallback. *)
InLog(event) == \E k \in 1..Len(log) : log[k] = event

RECURSIVE ClaimedFilterFrom(_, _, _)
ClaimedFilterFrom(lines, i, output_lines) ==
    IF i >= Len(lines) THEN output_lines
    ELSE IF lines[i + 1] = Marker151 /\ i > 0 /\ IsSentinel(lines[i])
         THEN ClaimedFilterFrom(lines, SkipToSentinel(lines, i + 1), output_lines)
         ELSE ClaimedFilterFrom(lines, i + 1, Append(output_lines, lines[i + 1]))

CountSentinels(lines) == Cardinality({k \in 1..Len(lines) : IsSentinel(lines[k])})

(* C8, as stated: the filtered text omits each dataset 151 block from its   *)
(* marker line up to, not including, the next '-1' line, keeps that         *)
(* closing '-1' line and every line outside the blocks, and so has as many  *)
(* '-1' lines as the input.                                                 *)
C8_AsStated ==
    (pc = "register" /\ InLog("filter")) =>
        /\ filtered_content = ClaimedFilterFrom(filepath, 0, <<>>)
        /\ CountSentinels(filtered_content) = CountSentinels(filepath)

-----------------------------------------------------------------------------
(* _interpolate_to_common_grid, lines 921-928.  interp1d(kind='linear',     *)
(* bounds_error=False, fill_value=0) sorts the source by frequency, joins   *)
(* neighbouring samples by straight lines and yields fill_value outside     *)
(* the source's range; the real and the imaginary part are interpolated     *)
(* apart and joined again.  A complex sample is [re, im].                   *)
Complex(re, im) == [re |-> re, im |-> im]

\* the position in xs of its r-th smallest element (xs has no repetition)
Rank(xs, r) ==
    CHOOSE i \in 1..Len(xs) : Cardinality({j \in 1..Len(xs) : xs[j] < xs[i]}) = r - 1

SortedX(xs) == [r \in 1..Len(xs) |-> xs[Rank(xs, r)]]
SortedY(xs, ys) == [r \in 1..Len(xs) |-> ys[Rank(xs, r)]]

fill_value == 0

\* the line through the samples around t, for sx increasing and t in range
LinearAt(sx, sy, t) ==
    LET lo == CHOOSE j \in 1..Len(sx) :
                  sx[j] <= t /\ \A k \in 1..Len(sx) : sx[k] <= t => sx[k] <= sx[j]
    IN  IF lo = Len(sx) THEN Frac(sy[lo], 1)
        ELSE Frac(sy[lo] * (sx[lo + 1] - sx[lo]) + (sy[lo + 1] - sy[lo]) * (t - sx[lo]),
                  sx[lo + 1] - sx[lo])

\* a mistaken variant: the nearest end sample outside the range
InterpAtClamped(sx, sy, t) ==
    IF t < sx[1] THEN Frac(sy[1], 1)
    ELSE IF t > sx[Len(sx)] THEN Frac(sy[Len(sx)], 1)
    ELSE LinearAt(sx, sy, t)

\* interp1d(...)(t) for real samples sy
InterpAt(sx, sy, t) ==
    IF t < sx[1] \/ t > sx[Len(sx)] THEN Frac(fill_value, 1)
    ELSE LinearAt(sx, sy, t)

interpolate_to_common_grid(xs, ys, xt) ==
    LET sx == SortedX(xs)
        re == [k \in 1..Len(xs) |-> SortedY(xs, ys)[k].re]
        im == [k \in 1..Len(xs) |-> SortedY(xs, ys)[k].im]
    IN  [k \in 1..Len(xt) |-> Complex(InterpAt(sx, re, xt[k]), InterpAt(sx, im, xt[k]))]

\* the inputs of the interpolation
SourceFrequencies == {1, 2, 4}
TargetFrequencies == 0..5
Samples == {Complex(0, 0), Complex(2, 0), Complex(3, 4), Complex(0, -2)}

DistinctSeqs(S, n) ==
    {q \in SeqsUpTo(S, n) : \A i, j \in 1..Len(q) : i # j => q[i] # q[j]}

InitAlign ==
    /\ x_source \in {q \in DistinctSeqs(SourceFrequencies, MaxSource) : Len(q) >= 2}
    /\ y_source_complex \in [1..Len(x_source) -> Samples]
    /\ x_target \in SeqsUpTo(TargetFrequencies, MaxTarget) \ {<<>>}
    /\ aligned = NotAligned
    /\ freq = <<>>
    /\ y_original = <<>>
    /\ y_reconstructed = <<>>
    /\ results = NoResults
    /\ ParseIdle
    /\ LoadIdle
    /\ SessionIdle

Align ==
    /\ ~aligned.done
    /\ aligned' = [done |-> TRUE,
                   y |-> interpolate_to_common_grid(x_source, y_source_complex, x_target)]
    /\ UNCHANGED <<x_source, y_source_complex, x_target, parse_vars, load_vars, metrics_vars,
                   session_vars>>

NextAlign == Align

SpecAlign == InitAlign /\ [][NextAlign]_vars

-----------------------------------------------------------------------------
(* Claims about the interpolation. *)
SetMin(S) == CHOOSE a \in S : \A b \in S : a <= b
SetMax(S) == CHOOSE a \in S : \A b \in S : a >= b
Range(q) == {q[k] : k \in 1..Len(q)}

(* C9: the aligned signal has one value per target frequency; it is exactly *)
(* 0+0j at every target strictly below the least or strictly above the      *)
(* greatest source frequency, exactly the source sample at a target equal   *)
(* to a source frequency, and between two neighbouring source frequencies   *)
(* the real and the imaginary part each lie on the line through the two     *)
(* samples.                                                                 *)
C9_Align ==
    aligned.done =>
        /\ Len(aligned.y) = Len(x_target)
        /\ \A k \in 1..Len(x_target) :
            LET t == x_target[k]
                v == aligned.y[k]
            IN  /\ (t < SetMin(Range(x_source)) \/ t > SetMax(Range(x_source)))
                       => (v.re = Frac(0, 1) /\ v.im = Frac(0, 1))
                /\ \A j \in 1..Len(x_source) :
                       t = x_source[j] =>
                          /\ FracEq(v.re, Frac(y_source_complex[j].re, 1))
                          /\ FracEq(v.im, Frac(y_source_complex[j].im, 1))
                /\ \A i, j \in 1..Len(x_source) :
                       (/\ x_source[i] < t /\ t < x_source[j]
                        /\ \A m \in 1..Len(x_source) :
                              ~(x_source[i] < x_source[m] /\ x_source[m] < x_source[j]))
                       => LET a == y_source_complex[i]
                              b == y_source_complex[j]
                              dx == x_source[j] - x_source[i]
                          IN  /\ FracEq(v.re, Frac(a.re * dx + (b.re - a.re) * (t - x_source[i]), dx))
                              /\ FracEq(v.im, Frac(a.im * dx + (b.im - a.im) * (t - x_source[i]), dx))

\* targets below the range, above it and strictly inside a segment whose ends
\* differ, on a source that is not given in increasing order
C9_Witness ==
    /\ aligned.done
    /\ x_source = <<4, 1>>
    /\ y_source_complex = <<Complex(3, 4), Complex(0, -2)>>
    /\ x_target = <<0, 3>>
    /\ aligned.y[1] = Complex(Frac(0, 1), Frac(0, 1))
    /\ FracEq(aligned.y[2].re, Frac(2, 1))
    /\ FracEq(aligned.y[2].im, Frac(2, 1))

-----------------------------------------------------------------------------
(* _compute_all_metrics, lines 930-959: the scalar metrics.  Every sample   *)
(* has an integer magnitude, so np.abs is exact; a quotient is a fraction.  *)
Abs(a) == IF a < 0 THEN -a ELSE a

\* np.abs of a complex sample
Mag(z) == CHOOSE m \in 0..(Abs(z.re) + Abs(z.im)) : m * m = z.re * z.re + z.im * z.im
Mags(y) == [k \in 1..Len(y) |-> Mag(y[k])]

RECURSIVE Sum(_)
Sum(q) == IF q = <<>> THEN 0 ELSE Head(q) + Sum(Tail(q))

\* a metric is a number or is not one: NaN, or None
Num(f) == [kind |-> "num", val |-> f]
NaN == [kind |-> "nan", val |-> Frac(0, 1)]
None == [kind |-> "none", val |-> Frac(0, 1)]

\* sklearn.metrics.r2_score(y_true, y_pred): NaN (with a warning) for fewer
\* than two samples; 1 - SS_res / SS_tot; with SS_tot = 0, 1.0 for a perfect
\* prediction and 0.0 otherwise.  SS_tot = (n * sum(y^2) - sum(y)^2) / n.
r2_score(y_true, y_pred) ==
    LET n == Len(y_true)
        ss_res == Sum([k \in 1..n |-> (y_true[k] - y_pred[k]) * (y_true[k] - y_pred[k])])
        n_ss_tot == n * Sum([k \in 1..n |-> y_true[k] * y_true[k]]) - Sum(y_true) * Sum(y_true)
    IN  IF n < 2 THEN NaN
        ELSE IF n_ss_tot # 0 THEN Num(Frac(n_ss_tot - n * ss_res, n_ss_tot))
        ELSE IF ss_res = 0 THEN Num(Frac(1, 1))
        ELSE Num(Frac(0, 1))

\* a mistaken variant: np.dot, which does not conjugate its first argument
VdotNoConj(a, b) ==
    Complex(Sum([k \in 1..Len(a) |-> a[k].re * b[k].re - a[k].im * b[k].im]),
            Sum([k \in 1..Len(a) |-> a[k].re * b[k].im + a[k].im * b[k].re]))

\* np.vdot(a, b): the sum of conj(a[k]) * b[k]
Vdot(a, b) ==
    Complex(Sum([k \in 1..Len(a) |-> a[k].re * b[k].re + a[k].im * b[k].im]),
            Sum([k \in 1..Len(a) |-> a[k].re * b[k].im - a[k].im * b[k].re]))

\* a mistaken variant: the criterion taken on the magnitudes of the samples
Frac_criterionOfMagnitudes(y_orig, y_recon) ==
    LET a == [k \in 1..Len(y_orig) |-> Complex(Mag(y_orig[k]), 0)]
        b == [k \in 1..Len(y_recon) |-> Complex(Mag(y_recon[k]), 0)]
        v == Vdot(a, b)
        numerator == v.re * v.re + v.im * v.im
        denom_a == Vdot(a, a).re
        denom_b == Vdot(b, b).re
    IN  IF denom_a > 0 /\ denom_b > 0 THEN Num(Frac(numerator, denom_a * denom_b))
        ELSE None

\* lines 950-959
Frac_criterion(y_orig, y_recon) ==
    LET v == Vdot(y_orig, y_recon)
        numerator == v.re * v.re + v.im * v.im
        denom_a == Vdot(y_orig, y_orig).re
        denom_b == Vdot(y_recon, y_recon).re
    IN  IF denom_a > 0 /\ denom_b > 0 THEN Num(Frac(numerator, denom_a * denom_b))
        ELSE None

(* Lines 961-964: scipy.signal.find_peaks(x, prominence=p).  A peak is the   *)
(* middle (rounded down) of a run of equal samples that is strictly higher  *)
(* than the sample before it and the sample after it; the first and the     *)
(* last sample are never peaks.  Its prominence is its height above the     *)
(* higher of the two lowest points between it and the nearest higher        *)
(* sample (or the end) on each side.  Positions are 1-based.                *)
LocalMaxima(x) ==
    {(l + r) \div 2 : <<l, r>> \in
        {lr \in (2..(Len(x) - 1)) \X (2..(Len(x) - 1)) :
            /\ lr[1] <= lr[2]
            /\ x[lr[1] - 1] < x[lr[1]]
            /\ \A k \in lr[1]..lr[2] : x[k] = x[lr[1]]
            /\ x[lr[2] + 1] < x[lr[1]]}}

Prominence(x, pk) ==
    LET higherLeft == {j \in 1..(pk - 1) : x[j] > x[pk]}
        higherRight == {j \in (pk + 1)..Len(x) : x[j] > x[pk]}
        lo == IF higherLeft = {} THEN 1 ELSE SetMax(higherLeft) + 1
        hi == IF higherRight = {} THEN Len(x) ELSE SetMin(higherRight) - 1
        left_min == SetMin({x[j] : j \in lo..pk})
        right_min == SetMin({x[j] : j \in pk..hi})
    IN  x[pk] - Max(left_min, right_min)

\* the elements of a set of integers in increasing order
RECURSIVE Ascending(_)
Ascending(S) ==
    IF S = {} THEN <<>> ELSE <<SetMin(S)>> \o Ascending(S \ {SetMin(S)})

\* find_peaks(x, prominence = tenth_of / 10): positions in increasing order
find_peaks(x, tenth_of) ==
    Ascending({pk \in LocalMaxima(x) : 10 * Prominence(x, pk) >= tenth_of})

\* a quotient with a positive denominator
Quot(n, d) == IF d < 0 THEN Frac(-n, -d) ELSE Frac(n, d)

\* np.argmin: the first position of the least element
ArgMin(q) == CHOOSE i \in 1..Len(q) :
    /\ \A j \in 1..Len(q) : q[i] <= q[j]
    /\ \A j \in 1..(i - 1) : q[j] > q[i]

\* a mistaken variant: a pair with every peak of mag_recon within the
\* tolerance, not with the nearest alone
RECURSIVE PeakPairWithEach(_, _, _, _, _)
PeakPairWithEach(f, mag_orig, mag_recon, peaks_recon, pk_idx) ==
    IF peaks_recon = <<>> THEN <<>>
    ELSE LET pk_recon_idx == Head(peaks_recon)
             rest == PeakPairWithEach(f, mag_orig, mag_recon, Tail(peaks_recon), pk_idx)
         IN  IF 20 * Abs(f[pk_recon_idx] - f[pk_idx]) < f[Len(f)] - f[1]
             THEN <<[freq_original |-> f[pk_idx],
                     freq_reconstructed |-> f[pk_recon_idx],
                     freq_error |-> f[pk_recon_idx] - f[pk_idx],
                     freq_error_pct |-> Frac(0, 1),
                     mag_original |-> mag_orig[pk_idx],
                     mag_reconstructed |-> mag_recon[pk_recon_idx],
                     mag_error |-> mag_recon[pk_recon_idx] - mag_orig[pk_idx],
                     mag_error_pct |-> Frac(0, 1)]>> \o rest
             ELSE rest

\* a mistaken variant: the errors of a pair as distances, without their sign
PeakPairUnsigned(f, mag_orig, mag_recon, peaks_recon, pk_idx) ==
    LET f_orig == f[pk_idx]
        mag_orig_pk == mag_orig[pk_idx]
        freq_diffs == [k \in 1..Len(peaks_recon) |-> Abs(f[peaks_recon[k]] - f_orig)]
        nearest_idx == ArgMin(freq_diffs)
        pk_recon_idx == peaks_recon[nearest_idx]
        f_recon == f[pk_recon_idx]
        mag_recon_pk == mag_recon[pk_recon_idx]
    IN  IF Len(peaks_recon) > 0 /\ 20 * freq_diffs[nearest_idx] < f[Len(f)] - f[1]
        THEN <<[freq_original |-> f_orig,
                freq_reconstructed |-> f_recon,
                freq_error |-> Abs(f_recon - f_orig),
                freq_error_pct |-> IF f_orig # 0
                                   THEN Quot(100 * Abs(f_recon - f_orig), f_orig)
                                   ELSE Frac(0, 1),
                mag_original |-> mag_orig_pk,
                mag_reconstructed |-> mag_recon_pk,
                mag_error |-> Abs(mag_recon_pk - mag_orig_pk),
                mag_error_pct |-> IF mag_orig_pk # 0
                                  THEN Quot(100 * Abs(mag_recon_pk - mag_orig_pk), mag_orig_pk)
                                  ELSE Frac(0, 1)]>>
        ELSE <<>>

\* lines 969-991: the pair of one peak of mag_orig, or none
PeakPair(f, mag_orig, mag_recon, peaks_recon, pk_idx) ==
    LET f_orig == f[pk_idx]
        mag_orig_pk == mag_orig[pk_idx]
        freq_diffs == [k \in 1..Len(peaks_recon) |-> Abs(f[peaks_recon[k]] - f_orig)]
        nearest_idx == ArgMin(freq_diffs)
        pk_recon_idx == peaks_recon[nearest_idx]
        f_recon == f[pk_recon_idx]
        mag_recon_pk == mag_recon[pk_recon_idx]
    IN  IF Len(peaks_recon) > 0 /\ 20 * freq_diffs[nearest_idx] < f[Len(f)] - f[1]
        THEN <<[freq_original |-> f_orig,
                freq_reconstructed |-> f_recon,
                freq_error |-> f_recon - f_orig,
                freq_error_pct |-> IF f_orig # 0 THEN Quot(100 * (f_recon - f_orig), f_orig)
                                   ELSE Frac(0, 1),
                mag_original |-> mag_orig_pk,
                mag_reconstructed |-> mag_recon_pk,
                mag_error |-> mag_recon_pk - mag_orig_pk,
                mag_error_pct |-> IF mag_orig_pk # 0
                                  THEN Quot(100 * (mag_recon_pk - mag_orig_pk), mag_orig_pk)
                                  ELSE Frac(0, 1)]>>
        ELSE <<>>

RECURSIVE PeakComparisons(_, _, _, _, _)
PeakComparisons(f, mag_orig, mag_recon, peaks_recon, peaks_orig) ==
    IF peaks_orig = <<>> THEN <<>>
    ELSE PeakPair(f, mag_orig, mag_recon, peaks_recon, Head(peaks_orig))
         \o PeakComparisons(f, mag_orig, mag_recon, peaks_recon, Tail(peaks_orig))

\* _compute_all_metrics, lines 930-998.  RMSE is kept as its square, the mean
\* of the squared errors (line 939); the prominence threshold is
\* 0.1 * max(mag_orig) and the frequency tolerance 0.05 * (freq[-1] - freq[0])
compute_all_metrics(f, y_orig, y_recon) ==
    LET mag_orig == Mags(y_orig)
        mag_recon == Mags(y_recon)
        n == Len(y_orig)
        error == [k \in 1..n |-> mag_orig[k] - mag_recon[k]]
        max_orig == SetMax(Range(mag_orig))
        peaks_orig == find_peaks(mag_orig, max_orig)
        peaks_recon == find_peaks(mag_recon, max_orig)
        peak_comparisons == PeakComparisons(f, mag_orig, mag_recon, peaks_recon, peaks_orig)
    IN  [done |-> TRUE,
         RMSE_squared |-> Frac(Sum([k \in 1..n |-> error[k] * error[k]]), n),
         R2 |-> r2_score(mag_orig, mag_recon),
         MAE |-> Frac(Sum([k \in 1..n |-> Abs(error[k])]), n),
         FRAC |-> Frac_criterion(y_orig, y_recon),
         peak_analysis |-> peak_comparisons,
         n_peaks_original |-> Len(peaks_orig),
         n_peaks_reconstructed |-> Len(peaks_recon),
         n_peaks_matched |-> Len(peak_comparisons)]

\* the inputs of the metrics: an increasing axis and two signals of its length
Axes == {[k \in 1..n |-> k - 1] : n \in 1..MaxSignal}

InitMetrics ==
    /\ freq \in Axes
    /\ y_original \in [1..Len(freq) -> Samples]
    /\ y_reconstructed \in [1..Len(freq) -> Samples]
    /\ results = NoResults
    /\ x_source = <<>>
    /\ y_source_complex = <<>>
    /\ x_target = <<>>
    /\ aligned = NotAligned
    /\ ParseIdle
    /\ LoadIdle
    /\ SessionIdle

Compute ==
    /\ ~results.done
    /\ results' = compute_all_metrics(freq, y_original, y_reconstructed)
    /\ UNCHANGED <<freq, y_original, y_reconstructed, parse_vars, load_vars, align_vars,
                   session_vars>>

(* _display_validation_results, lines 1000-1084.  The report is kept by   *)
(* the lines it holds, not by the digits of its numbers: the band under R2  *)
(* (1019-1026), the FRAC line and its band or the line that FRAC could not  *)
(* be calculated (1033-1046), the three peak counts (1053-1055) and either  *)
(* one block per pair or the line that no peak was matched (1058-1075).     *)
(* A comparison with NaN is false, so NaN falls through to the last band.   *)
Exceeds(m, hundredths) ==
    m.kind = "num" /\ ~FracLe(m.val, Frac(hundredths, 100))

R2_band(r2) ==
    IF Exceeds(r2, 95) THEN "Excellent linear correlation"
    ELSE IF Exceeds(r2, 85) THEN "Good linear correlation"
    ELSE IF Exceeds(r2, 70) THEN "Moderate linear correlation"
    ELSE "Poor linear correlation"

FRAC_lines(frac) ==
    IF frac # None
    THEN [value |-> "printed",
          band |-> IF Exceeds(frac, 95) THEN "Excellent shape consistency"
                   ELSE IF Exceeds(frac, 85) THEN "Good shape consistency"
                   ELSE IF Exceeds(frac, 70) THEN "Moderate shape consistency"
                   ELSE "Poor shape consistency"]
    ELSE [value |-> "Unable to calculate (denominator error)", band |-> "none"]

display_validation_results(res) ==
    [shown |-> TRUE,
     R2_band |-> R2_band(res.R2),
     FRAC |-> FRAC_lines(res.FRAC),
     n_peaks_original |-> res.n_peaks_original,
     n_peaks_reconstructed |-> res.n_peaks_reconstructed,
     n_peaks_matched |-> res.n_peaks_matched,
     peaks |-> IF Len(res.peak_analysis) > 0 THEN res.peak_analysis
               ELSE <<"No resonant peaks could be matched between the two signals.">>]

Display ==
    /\ results.done
    /\ ~report.shown
    /\ report' = display_validation_results(results)
    /\ UNCHANGED <<parse_vars, load_vars, align_vars, metrics_vars, testlab_file_type,
                   testlab_record_map, selected_testlab_iid, selected_reconstructed_iid,
                   calculate_metrics_button, save_button,
                   dialog, written>>

NextMetrics == Compute \/ Display

SpecMetrics == InitMetrics /\ [][NextMetrics]_vars

-----------------------------------------------------------------------------
(* Claims about the metrics. *)
IsNonzero(y) == \E k \in 1..Len(y) : y[k] # Complex(0, 0)
IsNumber(m, f) == m.kind = "num" /\ FracEq(m.val, f)

IdentityMetrics ==
    /\ FracEq(results.RMSE_squared, Frac(0, 1))
    /\ FracEq(results.MAE, Frac(0, 1))
    /\ IsNumber(results.R2, Frac(1, 1))
    /\ IsNumber(results.FRAC, Frac(1, 1))

-----------------------------------------------------------------------------
(* Claims about the scan for the payload start. *)
\* a payload start lies among the first ScanLimit lines after the axis lines
StartWithinWindow(lines) ==
    \E k \in PayloadPos(lines)..(PayloadPos(lines) + ScanLimit - 1) :
        k <= Len(lines) /\ IsDataStart(lines[k])

(* C17, as stated: under a header that decodes to at least one point, the   *)
(* parser returns a record exactly when one of the 100 lines after the four *)
(* axis lines is a payload start, wherever the marker stands in the text.   *)
C17_AsStated ==
    (parse_out.done /\ CharDecodes(raw_text) /\ CharN(raw_text) >= 1)
        => (parse_out.ok <=> StartWithinWindow(raw_text))

-----------------------------------------------------------------------------
(* Claims about the accumulation. *)
(* C18, as stated: from the payload start on, the parser takes the real     *)
(* tokens of at most point_count * 3 lines (blank lines not counted), up to *)
(* a '-1' line or point_count * 2 values; when the lines run out first it   *)
(* does not raise and returns those values followed by zeros; tokens that   *)
(* are no reals are skipped.                                                *)
C18_AsStated ==
    (/\ parse_out.done
     /\ CharDecodes(raw_text)
     /\ CharN(raw_text) >= 1
     /\ DataStartPos(raw_text) # 0
     /\ DataStartPos(raw_text) <= ScanLimit + 1)
        => LET n == CharN(raw_text)
               taken == TokensWithin(raw_text, DataStartPos(raw_text), 3 * n)
           IN  /\ parse_out.ok
               /\ Flatten(parse_out.rec.data) = SliceTo(PadZeros(taken, n), 2 * n)

-----------------------------------------------------------------------------
(* Claims about the order of the axis. *)
(* C19, as stated: the axis of every record the parser returns is           *)
(* non-decreasing, axis[k] <= axis[k+1], whatever spacing_type, x_min and   *)
(* x_increment_or_max the header holds.                                     *)
C19_AsStated ==
    parse_out.ok =>
        \A k \in 1..(Len(parse_out.rec.x) - 1) :
            FracLe(parse_out.rec.x[k], parse_out.rec.x[k + 1])

-----------------------------------------------------------------------------
(* _compute_all_metrics on signals long enough to hold several peaks: two  *)
(* magnitudes, and axes that rise by one, fall by one (np.arange with a    *)
(* negative increment, line 818), or rise with a last sample far away (an  *)
(* uneven abscissa read by pyuff).                                          *)
MaxPeakSignal == 5

PeakSamples == {Complex(1, 0), Complex(0, -3)}

RisingAxis(n) == [k \in 1..n |-> k - 1]
FallingAxis(n) == [k \in 1..n |-> n - k]
StretchedAxis(n) == [k \in 1..n |-> IF k = n THEN 50 ELSE k - 1]

PeakAxes ==
    UNION {{RisingAxis(n), FallingAxis(n), StretchedAxis(n)} : n \in 3..MaxPeakSignal}

InitPeaks ==
    /\ freq \in PeakAxes
    /\ y_original \in [1..Len(freq) -> PeakSamples]
    /\ y_reconstructed \in [1..Len(freq) -> PeakSamples]
    /\ results = NoResults
    /\ x_source = <<>>
    /\ y_source_complex = <<>>
    /\ x_target = <<>>
    /\ aligned = NotAligned
    /\ ParseIdle
    /\ LoadIdle
    /\ SessionIdle

SpecPeaks == InitPeaks /\ [][NextMetrics]_vars

-----------------------------------------------------------------------------
(* Claims about the peak analysis. *)
\* the peaks detected in each signal, as positions on the axis
DetectedOriginal == find_peaks(Mags(y_original), SetMax(Range(Mags(y_original))))
DetectedReconstructed == find_peaks(Mags(y_reconstructed), SetMax(Range(Mags(y_original))))

\* the least distance in frequency from position pk to a reconstructed peak
NearestDistance(pk) ==
    SetMin({Abs(freq[DetectedReconstructed[k]] - freq[pk]) :
                k \in 1..Len(DetectedReconstructed)})

PairsOf(pk) ==
    {j \in 1..Len(results.peak_analysis) :
        results.peak_analysis[j].freq_original = freq[pk]}

(* C11, as stated: a peak of the first signal at frequency f_ref is paired, *)
(* with the nearest detected peak of the second signal, if and only if      *)
(* their distance is strictly less than 0.05 * (max(freq) - min(freq)),     *)
(* whatever the order of the samples of the axis.                           *)
C11_AsStated ==
    results.done =>
        \A i \in 1..Len(DetectedOriginal) :
            LET pk == DetectedOriginal[i]
                within ==
                    /\ Len(DetectedReconstructed) > 0
                    /\ 20 * NearestDistance(pk) < SetMax(Range(freq)) - SetMin(Range(freq))
            IN  /\ (PairsOf(pk) # {}) <=> within
                /\ \A j \in PairsOf(pk) :
                       Abs(results.peak_analysis[j].freq_error) = NearestDistance(pk)

-----------------------------------------------------------------------------
(* Claims about R2 and FRAC and their lines in the report. *)
ConstantMagnitude(y) == \A j, k \in 1..Len(y) : Mag(y[j]) = Mag(y[k])

(* C12, as stated: when the magnitude of the reference (the first signal,   *)
(* the y_true of r2_score) is the same at every sample, R2 is reported as   *)
(* unavailable, neither a number nor NaN, and the report attaches no band   *)
(* to it.                                                                   *)
C12_AsStated ==
    (results.done /\ ConstantMagnitude(y_original)) =>
        /\ results.R2 = None
        /\ report.shown => report.R2_band = "none"

\* <a, b> = sum of conj(a[k]) * b[k], by its real and its imaginary part
InnerRe(a, b) == Sum([k \in 1..Len(a) |-> a[k].re * b[k].re + a[k].im * b[k].im])
InnerIm(a, b) == Sum([k \in 1..Len(a) |-> a[k].re * b[k].im - a[k].im * b[k].re])

(* C13: FRAC is None exactly when Re<a,a> <= 0 or Re<b,b> <= 0, which is    *)
(* when one of the two signals is zero at every sample; otherwise it is     *)
(* |<a,b>|^2 / (<a,a> * <b,b>) on the complex samples, the first argument   *)
(* conjugated.  The report prints the line that FRAC could not be           *)
(* calculated, and no band, exactly when FRAC is None.                      *)
C13_FRAC ==
    LET a == y_original
        b == y_reconstructed
        undefined == InnerRe(a, a) <= 0 \/ InnerRe(b, b) <= 0
    IN  /\ results.done =>
            /\ (results.FRAC = None) <=> undefined
            /\ undefined <=> (~IsNonzero(a) \/ ~IsNonzero(b))
            /\ ~undefined =>
                  IsNumber(results.FRAC,
                           Frac(InnerRe(a, b) * InnerRe(a, b) + InnerIm(a, b) * InnerIm(a, b),
                                InnerRe(a, a) * InnerRe(b, b)))
        /\ report.shown =>
            /\ undefined =>
                  /\ report.FRAC.value = "Unable to calculate (denominator error)"
                  /\ report.FRAC.band = "none"
            /\ ~undefined =>
                  /\ report.FRAC.value = "printed"
                  /\ report.FRAC.band # "none"

\* a nonzero reference against a reconstruction that is zero at every sample,
\* computed and shown
C13_Witness ==
    /\ report.shown
    /\ y_original = <<Complex(3, 4), Complex(0, -2)>>
    /\ y_reconstructed = <<Complex(0, 0), Complex(0, 0)>>
    /\ results.FRAC = None
    /\ report.FRAC.value = "Unable to calculate (denominator error)"

-----------------------------------------------------------------------------
(* calculate_validation_metrics, lines 844-919.  The response of a record   *)
(* is an array: its number of dimensions, whether its samples are complex   *)
(* (np.iscomplexobj), its second dimension, and its values, one tuple per  *)
(* sample: <<v>> in a real vector, <<re, im>> in a complex vector, the row  *)
(* in a table.                                                              *)
RealVector(v) ==
    [ndim |-> 1, iscomplex |-> FALSE, shape1 |-> 0, val |-> [k \in 1..Len(v) |-> <<v[k]>>]]
ComplexVector(v) ==
    [ndim |-> 1, iscomplex |-> TRUE, shape1 |-> 0,
     val |-> [k \in 1..Len(v) |-> <<v[k].re, v[k].im>>]]
RealTable(rows, cols) == [ndim |-> 2, iscomplex |-> FALSE, shape1 |-> cols, val |-> rows]

\* the c-th part of every sample: y[:, c] of a table
Column(d, c) == [k \in 1..Len(d.val) |-> d.val[k][c]]

ShowWarning(title, message) == [kind |-> "showwarning", title |-> title, message |-> message]
ShowError(title, message) == [kind |-> "showerror", title |-> title, message |-> message]

\* lines 868-876: the testlab response as a complex signal, or none
TestlabIsComplexFRF(d) == d.iscomplex \/ (d.ndim = 2 /\ d.shape1 >= 2)
TestlabComplex(d) ==
    [k \in 1..Len(d.val) |-> Complex(Column(d, 1)[k], Column(d, 2)[k])]

\* lines 879-883: the data of the first reconstructed file whose iid, or one
\* of whose record iids, is the selection; its records are {file_iid: data}
FindReconstructed(files, iid) ==
    LET hits == {k \in 1..Len(files) : files[k].iid = iid}
    IN  IF hits = {} THEN NoRecord ELSE files[SetMin(hits)].data

\* lines 892-895 and 904: column 0 of a table, else the response as it is,
\* plus 0j
ReconComplex(d) ==
    IF d.ndim = 2 THEN [k \in 1..Len(d.val) |-> Complex(Column(d, 1)[k], 0)]
    ELSE IF d.iscomplex
         THEN [k \in 1..Len(d.val) |-> Complex(Column(d, 1)[k], Column(d, 2)[k])]
    ELSE [k \in 1..Len(d.val) |-> Complex(Column(d, 1)[k], 0)]

\* an interpolated sample whose parts are whole numbers, as [re, im]
Whole(z) == Complex(z.re[1] \div z.re[2], z.im[1] \div z.im[2])

\* the call of line 908, by the roles its arguments take in
\* _compute_all_metrics(freq, y_original, y_reconstructed)
MetricsArguments(x_recon, y_recon_complex, y_testlab_interp) ==
    [freq |-> x_recon, y_original |-> y_recon_complex, y_reconstructed |-> y_testlab_interp]

\* the handler has nothing to say, or says it in a message box and returns
Rejected(box) ==
    /\ dialog' = box
    /\ UNCHANGED <<align_vars, metrics_vars, report>>

(* The whole handler.  interp1d raises ValueError when x and y differ in    *)
(* length; the handler catches every exception and shows it (916-919).      *)
calculate_validation_metrics ==
    /\ dialog = NoDialog
    /\ ~report.shown
    /\ IF selected_reconstructed_iid = NoIid
       THEN Rejected(ShowWarning("Validation Error", "Select a reconstructed signal first."))
       ELSE IF selected_testlab_iid = NoIid
       THEN Rejected(ShowWarning("Validation Error", "Select a Testlab record to compare."))
       ELSE IF ~TestlabIsComplexFRF(testlab_record.data)
       THEN Rejected(ShowError("Validation Error",
                               "Selected testlab record is not a complex FRF."))
       ELSE LET recon_record == FindReconstructed(reconstructed_files,
                                                  selected_reconstructed_iid)
            IN  IF recon_record = NoRecord
                THEN Rejected(ShowError("Validation Error",
                                        "Could not find reconstructed record data."))
                ELSE LET x_testlab == testlab_record.x
                         y_testlab_complex == TestlabComplex(testlab_record.data)
                         x_recon == recon_record.x
                         y_recon_complex == ReconComplex(recon_record.data)
                     IN  IF Len(x_testlab) # Len(y_testlab_complex)
                         THEN Rejected(ShowError("Validation Error",
                                                 "Failed to calculate metrics."))
                         ELSE /\ x_source' = x_testlab
                              /\ y_source_complex' = y_testlab_complex
                              /\ x_target' = x_recon
                              /\ aligned' =
                                    [done |-> TRUE,
                                     y |-> interpolate_to_common_grid(
                                               x_source', y_source_complex', x_target')]
                              /\ LET y_testlab_interp ==
                                         [k \in 1..Len(aligned'.y) |-> Whole(aligned'.y[k])]
                                     args == MetricsArguments(x_recon, y_recon_complex,
                                                              y_testlab_interp)
                                 IN  /\ freq' = args.freq
                                     /\ y_original' = args.y_original
                                     /\ y_reconstructed' = args.y_reconstructed
                              /\ results' = compute_all_metrics(freq', y_original',
                                                                y_reconstructed')
                              /\ report' = display_validation_results(results')
                              /\ UNCHANGED dialog
    /\ UNCHANGED <<parse_vars, load_vars, testlab_file_type, testlab_record_map,
                   selected_testlab_iid, selected_reconstructed_iid, written,
                   calculate_metrics_button, save_button>>

(* The sessions the handler is run in: a testlab record and one             *)
(* reconstructed file with whole frequencies one apart, so that every       *)
(* frequency of the reconstructed axis is a testlab frequency or lies       *)
(* outside the testlab range and the interpolated samples are whole.        *)
MaxGrid == 3

Grid(first, n) == [k \in 1..n |-> first + k - 1]

TestlabValues == {Complex(3, 4), Complex(0, -2)}
ReconValues == {2, 5}

Vectors(S, n) == [1..n -> S]

TestlabResponses(n) ==
    {ComplexVector(v) : v \in Vectors(TestlabValues, n)}
    \cup {RealTable([k \in 1..n |-> <<v[k].re, v[k].im>>], 2) : v \in Vectors(TestlabValues, n)}
    \cup {RealVector([k \in 1..n |-> 5]), RealTable([k \in 1..n |-> <<5>>], 1)}

TestlabRecords ==
    UNION {{[type |-> 58, x |-> Grid(first, n), data |-> d, data_type |-> 5, num_points |-> n] :
                first \in {0, 1}, d \in TestlabResponses(n)} : n \in 2..MaxGrid}
    \cup {[type |-> 58, x |-> Grid(0, 3), data |-> ComplexVector(<<Complex(3, 4), Complex(0, -2)>>),
           data_type |-> 5, num_points |-> 3]}

ReconResponses(n) ==
    {RealTable([k \in 1..n |-> <<v[k], 0>>], 2) : v \in Vectors(ReconValues, n)}
    \cup {RealVector(v) : v \in Vectors(ReconValues, n)}
    \cup {ComplexVector(v) : v \in Vectors(TestlabValues, n)}

ReconRecords ==
    UNION {{[type |-> 58, x |-> Grid(0, n), data |-> d, data_type |-> 2, num_points |-> n] :
                d \in ReconResponses(n)} : n \in 1..MaxGrid}

ReconFile(rec) == <<[iid |-> 0, filepath |-> <<>>, data |-> rec]>>

InitValidate ==
    /\ testlab_file_type \in {"mat", "unv"}
    /\ \/ /\ testlab_record_map \in {[iid \in {0} |-> rec] : rec \in TestlabRecords}
          /\ reconstructed_files \in {ReconFile(rec) : rec \in ReconRecords}
          /\ selected_testlab_iid = 0
          /\ selected_reconstructed_iid = 0
       \/ /\ testlab_record_map =
                [iid \in {0} |-> CHOOSE rec \in TestlabRecords :
                                     rec.data.iscomplex /\ Len(rec.x) = Len(rec.data.val)]
          /\ reconstructed_files \in {<<>>, ReconFile(CHOOSE rec \in ReconRecords : TRUE)}
          /\ selected_testlab_iid \in {NoIid, 0}
          /\ selected_reconstructed_iid \in
                {NoIid} \cup {reconstructed_files[k].iid : k \in 1..Len(reconstructed_files)}
    /\ reconstructed_file_counter = Len(reconstructed_files)
    /\ recon_tree = {reconstructed_files[k].iid : k \in 1..Len(reconstructed_files)}
    /\ pc = "idle"
    /\ filepaths = <<>>
    /\ filepath = <<>>
    /\ custom_out = NotCalled
    /\ log = <<>>
    /\ filtered_content = <<>>
    /\ data_dict = NoRecord
    /\ successful = 0
    /\ failed = 0
    /\ dialog = NoDialog
    /\ report = NoReport
    /\ written = NoRecord
    /\ calculate_metrics_button =
           update_metrics_button_state(selected_testlab_iid, selected_reconstructed_iid)
    /\ save_button = IF selected_testlab_iid = NoIid THEN "disabled" ELSE "normal"
    /\ ParseIdle
    /\ ValidationIdle

NextValidate == calculate_validation_metrics

SpecValidate == InitValidate /\ [][NextValidate]_vars

-----------------------------------------------------------------------------
(* save_selected_record, lines 652-693.  A testlab record carries, besides  *)
(* its axis and response, the keys the export sets; Absent stands for a key *)
(* the record does not hold.                                                *)
Absent == -1

TestlabDataset(x, d, dt) ==
    [type |-> 58, x |-> x, data |-> d, data_type |-> dt, num_points |-> Len(x),
     z_def_type |-> Absent, num_values_per_point |-> Absent, ylabel |-> "FRF"]

ShowInfo(title, message) == [kind |-> "showinfo", title |-> title, message |-> message]

\* lines 672-684: the record with the linear magnitude in column 0 of a table
\* of two columns, column 1 left at zero
TransformedRecord(original_record) ==
    LET y_data_raw == original_record.data
        linear_magnitude ==
            [k \in 1..Len(y_data_raw.val) |->
                Mag(Complex(Column(y_data_raw, 1)[k], Column(y_data_raw, 2)[k]))]
        save_data == RealTable([k \in 1..Len(linear_magnitude) |-> <<linear_magnitude[k], 0>>], 2)
    IN  [original_record EXCEPT !.data = save_data,
                                !.data_type = 2,
                                !.z_def_type = 0,
                                !.num_values_per_point = 2,
                                !.ylabel = "AMPLITUDE"]

\* a mistaken variant: new_record = original_record, the same dict, so that
\* the assignments of 681-685 land in the record of the map
OriginalWithoutCopy(original_record, new_record) == new_record

\* line 676, new_record = original_record.copy(): a dict of its own, so the
\* assignments of 681-685 to its keys leave original_record as it was
OriginalAfterCopy(original_record, new_record) == original_record

\* lines 670-674: the handler derives a record from the selected one
DerivesRecord(save_path) ==
    /\ selected_testlab_iid # NoIid
    /\ save_path # ""
    /\ testlab_file_type = "unv"
    /\ testlab_record.type = 58
    /\ testlab_record.data.ndim = 2
    /\ testlab_record.data.shape1 >= 2

(* The whole handler; save_path is the answer of the file dialog, the empty *)
(* string when it is cancelled, and write_sets of pyuff writes the record   *)
(* or raises.                                                               *)
save_selected_record ==
    /\ dialog = NoDialog
    /\ written = NoRecord
    /\ \E save_path \in {"", "Linear_record.unv"}, write_raises \in BOOLEAN :
      /\ testlab_record_map' =
            IF DerivesRecord(save_path)
            THEN [testlab_record_map EXCEPT ![selected_testlab_iid] =
                     OriginalAfterCopy(testlab_record, TransformedRecord(testlab_record))]
            ELSE testlab_record_map
      /\
        IF selected_testlab_iid = NoIid
        THEN /\ dialog' = ShowWarning("Save Error", "No record selected.")
             /\ UNCHANGED written
        ELSE IF save_path = ""
        THEN UNCHANGED <<dialog, written>>
        ELSE IF testlab_file_type = "unv" /\ testlab_record.type = 58
        THEN LET y_data_raw == testlab_record.data
                 transform == y_data_raw.ndim = 2 /\ y_data_raw.shape1 >= 2
             IN  IF write_raises
                 THEN /\ dialog' = ShowError("Save Error", "Failed to save to .unv file.")
                      /\ UNCHANGED written
                 ELSE IF transform
                 THEN /\ written' = TransformedRecord(testlab_record)
                      /\ dialog' = ShowInfo("Success", "Successfully saved transformed record")
                 ELSE /\ written' = testlab_record
                      /\ dialog' = ShowInfo("Success",
                                            "Record was not a complex FRF. Saved original data")
        ELSE IF testlab_file_type = "mat"
        THEN /\ dialog' = ShowWarning("Not Implemented",
                                      "Saving transformed FRF from .mat is not yet supported.")
             /\ UNCHANGED written
        ELSE UNCHANGED <<dialog, written>>
    /\ UNCHANGED <<parse_vars, load_vars, align_vars, metrics_vars, testlab_file_type,
                   selected_testlab_iid, selected_reconstructed_iid,
                   calculate_metrics_button, save_button, report>>

\* the records to export: tables of two and of three columns, complex and
\* real vectors
TableValues == {<<3, 4>>, <<0, -2>>, <<0, 0>>}

SaveResponses(n) ==
    {RealTable(rows, 2) : rows \in Vectors(TableValues, n)}
    \cup {ComplexVector(v) : v \in Vectors(TestlabValues, n)}
    \cup {RealVector(v) : v \in Vectors(ReconValues, n)}
    \cup {RealTable([k \in 1..n |-> <<3, 4, 7>>], 3), RealTable([k \in 1..n |-> <<5>>], 1)}

SaveRecords ==
    UNION {{TestlabDataset(Grid(first, n), d, dt) :
                first \in {0, 1}, d \in SaveResponses(n), dt \in {2, 5}} : n \in 1..MaxGrid}

InitSave ==
    /\ testlab_file_type \in {"mat", "unv"}
    /\ testlab_record_map \in {[iid \in {0} |-> rec] : rec \in SaveRecords}
    /\ selected_testlab_iid \in {NoIid, 0}
    /\ selected_reconstructed_iid = NoIid
    /\ calculate_metrics_button = "disabled"
    /\ save_button = IF selected_testlab_iid = NoIid THEN "disabled" ELSE "normal"
    /\ dialog = NoDialog
    /\ report = NoReport
    /\ written = NoRecord
    /\ ParseIdle
    /\ LoadIdle
    /\ ValidationIdle

NextSave == save_selected_record

SpecSave == InitSave /\ [][NextSave]_vars

-----------------------------------------------------------------------------
(* Claims about the export. *)
IsTwoColumn(d) == d.ndim = 2 /\ d.shape1 = 2
IsSingleColumn(d) == d.ndim = 1 \/ d.shape1 = 1

(* C15, as stated: the record written for a record whose response has two   *)
(* columns (re, im) has a single-column response holding |re + i*im| per    *)
(* point, a column count of 1, the amplitude data type, the amplitude label *)
(* and the axis of the original; for any other response the record written *)
(* is the original.                                                         *)
C15_AsStated ==
    written # NoRecord =>
        IF IsTwoColumn(testlab_record.data)
        THEN /\ IsSingleColumn(written.data)
             /\ Len(written.data.val) = Len(testlab_record.data.val)
             /\ \A k \in 1..Len(written.data.val) :
                    Column(written.data, 1)[k] =
                        Mag(Complex(Column(testlab_record.data, 1)[k],
                                    Column(testlab_record.data, 2)[k]))
             /\ written.num_values_per_point = 1
             /\ written.data_type = 2
             /\ written.ylabel = "AMPLITUDE"
             /\ written.x = testlab_record.x
        ELSE written = testlab_record

-----------------------------------------------------------------------------
(* Claims about the validation handler. *)
ComplexCapable(d) == d.iscomplex \/ (d.ndim = 2 /\ d.shape1 >= 2)

HandlerReturned == dialog # NoDialog \/ report.shown

SelectedReconstructed == FindReconstructed(reconstructed_files, selected_reconstructed_iid)

BothSelected ==
    /\ selected_testlab_iid # NoIid
    /\ selected_reconstructed_iid # NoIid
    /\ SelectedReconstructed # NoRecord

(* C14, as stated: whenever the response of the testlab record or of the    *)
(* reconstructed record is neither complex nor a table of at least two      *)
(* columns, the handler fails with a Validation Error and shows no report.  *)
C14_AsStated ==
    (/\ HandlerReturned
     /\ BothSelected
     /\ \/ ~ComplexCapable(testlab_record.data)
        \/ ~ComplexCapable(SelectedReconstructed.data))
        => /\ dialog.kind = "showerror"
           /\ dialog.title = "Validation Error"
           /\ ~report.shown
           /\ ~results.done

(* C16, as stated: the metrics of a report are those of the testlab signal, *)
(* interpolated onto the reconstructed axis, as the reference (y_original)  *)
(* and of the signal of the reconstructed file as the reconstruction        *)
(* (y_reconstructed).                                                       *)
C16_AsStated ==
    report.shown =>
        LET testlab_signal == [k \in 1..Len(aligned.y) |-> Whole(aligned.y[k])]
            reconstructed_signal == ReconComplex(SelectedReconstructed.data)
        IN  results = compute_all_metrics(SelectedReconstructed.x, testlab_signal,
                                          reconstructed_signal)

-----------------------------------------------------------------------------
(* Claims about the pairing of peaks. *)
(* C20: every pair belongs to a detected peak of the first signal and joins *)
(* it to the nearest detected peak of the second; a detected peak of the    *)
(* first signal is in at most one pair; paired or not, it is counted in     *)
(* n_peaks_original; and n_peaks_matched = len(peak_analysis) <=            *)
(* n_peaks_original.  Nothing bounds the pairs of one peak of the second    *)
(* signal: n_peaks_matched may exceed n_peaks_reconstructed (the witness).  *)
C20_Pairing ==
    results.done =>
        /\ results.n_peaks_matched = Len(results.peak_analysis)
        /\ results.n_peaks_matched <= results.n_peaks_original
        /\ results.n_peaks_original = Len(DetectedOriginal)
        /\ results.n_peaks_reconstructed = Len(DetectedReconstructed)
        /\ \A i \in 1..Len(DetectedOriginal) :
               Cardinality(PairsOf(DetectedOriginal[i])) <= 1
        /\ \A j \in 1..Len(results.peak_analysis) :
               \E i \in 1..Len(DetectedOriginal) :
                   LET pk == DetectedOriginal[i]
                       pair == results.peak_analysis[j]
                   IN  /\ pair.freq_original = freq[pk]
                       /\ \E k \in 1..Len(DetectedReconstructed) :
                              pair.freq_reconstructed = freq[DetectedReconstructed[k]]
                       /\ Abs(pair.freq_reconstructed - pair.freq_original) = NearestDistance(pk)

\* one peak of the second signal paired with both peaks of the first
C20_Witness ==
    /\ results.done
    /\ results.n_peaks_original = 2
    /\ results.n_peaks_reconstructed = 1
    /\ results.n_peaks_matched = 2
    /\ results.peak_analysis[1].freq_reconstructed = results.peak_analysis[2].freq_reconstructed
    /\ results.peak_analysis[1].freq_original # results.peak_analysis[2].freq_original

-----------------------------------------------------------------------------
(* _compute_all_metrics on pairs whose errors are not zero: a second signal *)
(* with a third magnitude, so that a paired peak may be lower than its      *)
(* partner, and an axis that starts below zero (the abscissa minimum of     *)
(* line 817 is any number), so that a peak may stand at frequency 0.        *)
MaxPairSignal == 4

PairSamples == PeakSamples \cup {Complex(2, 0)}

ShiftedAxis(n) == [k \in 1..n |-> IF k = n THEN 50 ELSE k - 2]

PairAxes == UNION {{StretchedAxis(n), ShiftedAxis(n)} : n \in 3..MaxPairSignal}

InitPairs ==
    /\ freq \in PairAxes
    /\ y_original \in [1..Len(freq) -> PeakSamples]
    /\ y_reconstructed \in [1..Len(freq) -> PairSamples]
    /\ results = NoResults
    /\ x_source = <<>>
    /\ y_source_complex = <<>>
    /\ x_target = <<>>
    /\ aligned = NotAligned
    /\ ParseIdle
    /\ LoadIdle
    /\ SessionIdle

SpecPairs == InitPairs /\ [][NextMetrics]_vars

\* the positions of the axis at one frequency
PositionsAt(f) == {k \in 1..Len(freq) : freq[k] = f}

(* C21: in every pair, freq_error is the frequency of the peak of the      *)
(* second signal minus that of the first and mag_error the difference of    *)
(* their magnitudes in the same order, with their signs; each percentage is *)
(* 100 * error / the value of the first signal, and exactly 0 when that     *)
(* value is 0; no quotient has a zero denominator.                          *)
C21_Errors ==
    results.done =>
        \A j \in 1..Len(results.peak_analysis) :
            LET pair == results.peak_analysis[j]
            IN  /\ \E k \in PositionsAt(pair.freq_original) :
                       pair.mag_original = Mag(y_original[k])
                /\ \E k \in PositionsAt(pair.freq_reconstructed) :
                       pair.mag_reconstructed = Mag(y_reconstructed[k])
                /\ pair.freq_error = pair.freq_reconstructed - pair.freq_original
                /\ pair.mag_error = pair.mag_reconstructed - pair.mag_original
                /\ pair.freq_error_pct[2] # 0
                /\ pair.mag_error_pct[2] # 0
                /\ IF pair.freq_original # 0
                   THEN pair.freq_error_pct[1] * pair.freq_original
                            = 100 * pair.freq_error * pair.freq_error_pct[2]
                   ELSE pair.freq_error_pct = Frac(0, 1)
                /\ IF pair.mag_original # 0
                   THEN pair.mag_error_pct[1] * pair.mag_original
                            = 100 * pair.mag_error * pair.mag_error_pct[2]
                   ELSE pair.mag_error_pct = Frac(0, 1)

\* a peak at frequency 0 paired with a lower peak one step to its right
C21_Witness ==
    /\ results.done
    /\ \E j \in 1..Len(results.peak_analysis) :
           /\ results.peak_analysis[j].freq_original = 0
           /\ results.peak_analysis[j].freq_error = 1
           /\ results.peak_analysis[j].freq_error_pct = Frac(0, 1)
           /\ results.peak_analysis[j].mag_error = -1
           /\ FracEq(results.peak_analysis[j].mag_error_pct, Frac(-100, 3))

-----------------------------------------------------------------------------
(* Claims about the batch of load_reconstructed_files. *)
\* the file in the hands of the loop body, if any
InHand == IF pc \in {"custom", "fallback", "register"} THEN 1 ELSE 0

(* C24, as stated: every path of the batch is counted once, as successful   *)
(* or as failed, whatever happened to the paths before it; a step that      *)
(* counts a file as failed leaves reconstructed_files and the tree as they  *)
(* were; and a file gets its entry and its node only in a step that counts  *)
(* it as successful.                                                        *)
C24_AsStated ==
    [][(pc # "idle" /\ pc' # "idle") =>
        /\ successful' + failed' + Len(filepaths') + InHand'
               = successful + failed + Len(filepaths) + InHand
        /\ failed' = failed + 1 =>
               /\ reconstructed_files' = reconstructed_files
               /\ recon_tree' = recon_tree
        /\ (reconstructed_files' # reconstructed_files \/ recon_tree' # recon_tree) =>
               successful' = successful + 1]_vars

-----------------------------------------------------------------------------
(* The handlers of the two trees and of the testlab file, lines 211-288 and *)
(* 400-524.  A handler runs to its end before another starts; the loop of   *)
(* load_reconstructed_files is the only one taken step by step.             *)

\* lines 211-223, reset_ui_testlab, by what it leaves in the four fields it
\* sets; its last line is update_metrics_button_state
reset_ui_testlab ==
    /\ testlab_record_map' = <<>>
    /\ save_button' = "disabled"
    /\ selected_testlab_iid' = NoIid
    /\ testlab_file_type' = PyNone
    /\ calculate_metrics_button' =
           update_metrics_button_state(NoIid, selected_reconstructed_iid)

\* lines 407 and 429: a value of the file that becomes a record of the map, a
\* struct with Name, X_Data and Y_Data in a .mat file, a set of type 58 in a
\* .unv file
IsTestlabRecord(value) == value.type = 58

\* lines 400-442, populate_testlab_tree_mat and populate_testlab_tree_unv:
\* the iid of a record is made of its position in the file (testlab_<i>) or
\* of its key
populate_testlab_tree(sets) ==
    [iid \in {i \in 0..(Len(sets) - 1) : IsTestlabRecord(sets[i + 1])} |-> sets[iid + 1]]

(* lines 243-288, load_testlab_file.  The dialog is cancelled, or names a   *)
(* file: its extension, the values read from it, and whether reading or     *)
(* populating raises.                                                       *)
MaxSets == 2

FrfRecord == TestlabDataset(Grid(0, 2), RealTable(<<<<3, 4>>, <<0, -2>>>>, 2), 5)
UnitsSet == [TestlabDataset(<<>>, RealVector(<<>>), 0) EXCEPT !.type = 164]

TestlabFiles ==
    {[ext |-> e, sets |-> q, raises |-> FALSE] :
        e \in {"mat", "unv"}, q \in SeqsUpTo({FrfRecord, UnitsSet}, MaxSets)}
    \cup {[ext |-> "unv", sets |-> <<>>, raises |-> TRUE],
          [ext |-> "txt", sets |-> <<>>, raises |-> FALSE]}

load_testlab_file ==
    /\ pc = "idle"
    /\ \E cancelled \in BOOLEAN, file \in TestlabFiles :
        IF cancelled
        THEN UNCHANGED <<testlab_record_map, save_button, selected_testlab_iid,
                         testlab_file_type, calculate_metrics_button, dialog>>
        ELSE IF file.ext \in {"mat", "unv"} /\ ~file.raises
        THEN /\ testlab_record_map' = populate_testlab_tree(file.sets)
             /\ testlab_file_type' = file.ext
             /\ save_button' = "disabled"
             /\ selected_testlab_iid' = NoIid
             /\ calculate_metrics_button' =
                    update_metrics_button_state(NoIid, selected_reconstructed_iid)
             /\ UNCHANGED dialog
        ELSE /\ dialog' = ShowError("Error", "Failed to load Testlab file.")
             /\ reset_ui_testlab
    /\ UNCHANGED <<parse_vars, load_vars, align_vars, metrics_vars,
                   selected_reconstructed_iid, report, written>>

\* lines 545-586, update_testlab_plots: Matplotlib raises when x and y differ
\* in length; the handler catches it and shows a warning
TestlabPlotRaises(record) == Len(record.x) # Len(record.data.val)

\* lines 444-454; selected_iid is the focus of the tree, a record, or NoIid
\* for no focus and for a node that is not a record
on_testlab_select ==
    /\ pc = "idle"
    /\ \E selected_iid \in DOMAIN testlab_record_map \cup {NoIid} :
        IF selected_iid = NoIid \/ selected_iid \notin DOMAIN testlab_record_map
        THEN /\ save_button' = "disabled"
             /\ selected_testlab_iid' = NoIid
             /\ calculate_metrics_button' =
                    update_metrics_button_state(NoIid, selected_reconstructed_iid)
             /\ UNCHANGED dialog
        ELSE /\ selected_testlab_iid' = selected_iid
             /\ dialog' = IF TestlabPlotRaises(testlab_record_map[selected_iid])
                          THEN ShowWarning("Plot Error", "Could not plot selected record.")
                          ELSE dialog
             /\ save_button' = "normal"
             /\ calculate_metrics_button' =
                    update_metrics_button_state(selected_iid, selected_reconstructed_iid)
    /\ UNCHANGED <<parse_vars, load_vars, align_vars, metrics_vars, testlab_file_type,
                   testlab_record_map, selected_reconstructed_iid, report, written>>

\* lines 474-475: record_data['x'] and record_data['data'], a KeyError for a
\* set without them, caught at 515 with the rest of the handler skipped
ReconPlotRaises(record_data) == ~HasAbscissa(record_data)

\* lines 456-517; selected_iid is the focus of the tree, a node or NoIid
on_recon_select ==
    /\ pc = "idle"
    /\ \E selected_iid \in recon_tree \cup {NoIid} :
        LET record_data == FindReconstructed(reconstructed_files, selected_iid)
        IN  IF record_data = NoRecord
            THEN /\ selected_reconstructed_iid' = NoIid
                 /\ calculate_metrics_button' =
                        update_metrics_button_state(selected_testlab_iid, NoIid)
            ELSE /\ selected_reconstructed_iid' = selected_iid
                 /\ calculate_metrics_button' =
                        IF ReconPlotRaises(record_data) THEN calculate_metrics_button
                        ELSE update_metrics_button_state(selected_testlab_iid, selected_iid)
    /\ UNCHANGED <<parse_vars, load_vars, align_vars, metrics_vars, testlab_file_type,
                   testlab_record_map, selected_testlab_iid, dialog, report, written,
                   save_button>>

\* a mistaken variant: the tree and the files are cleared, the selection kept
clear_reconstructed_files_keeping_selection ==
    /\ pc = "idle"
    /\ recon_tree' = {}
    /\ reconstructed_files' = <<>>
    /\ UNCHANGED <<parse_vars, align_vars, metrics_vars, testlab_file_type,
                   testlab_record_map, selected_testlab_iid, dialog, report, written,
                   save_button, selected_reconstructed_iid, calculate_metrics_button,
                   pc, filepaths, filepath, custom_out, log, filtered_content, data_dict,
                   successful, failed, reconstructed_file_counter>>

\* lines 225-241; the counter of the iids is not set back
clear_reconstructed_files ==
    /\ pc = "idle"
    /\ recon_tree' = {}
    /\ reconstructed_files' = <<>>
    /\ selected_reconstructed_iid' = NoIid
    /\ calculate_metrics_button' = update_metrics_button_state(selected_testlab_iid, NoIid)
    /\ UNCHANGED <<parse_vars, align_vars, metrics_vars, testlab_file_type,
                   testlab_record_map, selected_testlab_iid, dialog, report, written,
                   save_button,
                   pc, filepaths, filepath, custom_out, log, filtered_content, data_dict,
                   successful, failed, reconstructed_file_counter>>

\* the reconstructed files of a session: one that the custom parser reads,
\* one that is left to pyuff
SessionTexts ==
    {Block(CharLine(I(2), 1, 0, D(0), D(2), 6), <<RowA>>), <<Sentinel, Marker151>>}

SessionBatches == SeqsUpTo(SessionTexts, MaxFiles) \ {<<>>}

InitSession == InitLoad

NextSession ==
    \/ load_testlab_file
    \/ on_testlab_select
    \/ on_recon_select
    \/ clear_reconstructed_files
    \/ StartLoadOf(SessionBatches)
           /\ UNCHANGED <<parse_vars, align_vars, metrics_vars, session_vars>>
    \/ LoadSteps

SpecSession == InitSession /\ [][NextSession]_vars

-----------------------------------------------------------------------------
(* The handlers that read the records of a session in which a testlab file  *)
(* and a reconstructed file are loaded: the two selections, the metrics and *)
(* the export.                                                              *)
ReaderTestlabResponses(n) ==
    {RealTable(rows, 2) : rows \in Vectors({<<3, 4>>, <<0, -2>>}, n)}
    \cup {ComplexVector([k \in 1..n |-> Complex(3, 4)]), RealVector([k \in 1..n |-> 5])}

ReaderTestlabRecords ==
    UNION {{TestlabDataset(Grid(0, n), d, 5) : d \in ReaderTestlabResponses(n)} :
               n \in 2..MaxGrid}

ReaderReconRecords ==
    UNION {{[type |-> 58, x |-> Grid(0, n), data |-> d, data_type |-> 2, num_points |-> n] :
                d \in {RealTable([k \in 1..n |-> <<v[k], 0>>], 2) : v \in Vectors(ReconValues, n)}
                      \cup {RealVector([k \in 1..n |-> 2])}} : n \in 1..MaxGrid}

InitReaders ==
    /\ testlab_file_type \in {"mat", "unv"}
    /\ testlab_record_map \in {[iid \in {0} |-> rec] : rec \in ReaderTestlabRecords}
    /\ reconstructed_files \in {ReconFile(rec) : rec \in ReaderReconRecords}
    /\ reconstructed_file_counter = 1
    /\ recon_tree = {0}
    /\ selected_testlab_iid = NoIid
    /\ selected_reconstructed_iid = NoIid
    /\ calculate_metrics_button = "disabled"
    /\ save_button = "disabled"
    /\ pc = "idle"
    /\ filepaths = <<>>
    /\ filepath = <<>>
    /\ custom_out = NotCalled
    /\ log = <<>>
    /\ filtered_content = <<>>
    /\ data_dict = NoRecord
    /\ successful = 0
    /\ failed = 0
    /\ dialog = NoDialog
    /\ report = NoReport
    /\ written = NoRecord
    /\ ParseIdle
    /\ ValidationIdle

NextReaders ==
    \/ on_testlab_select
    \/ on_recon_select
    \/ calculate_validation_metrics
    \/ save_selected_record

SpecReaders == InitReaders /\ [][NextReaders]_vars

-----------------------------------------------------------------------------
(* Claims about the session. *)
(* C23, as stated: whatever handlers have run, and whatever was raised in   *)
(* them, the metrics button is enabled if and only if a testlab record and  *)
(* a reconstructed signal are both selected.                                *)
C23_AsStated ==
    (calculate_metrics_button = "normal")
        <=> (selected_testlab_iid # NoIid /\ selected_reconstructed_iid # NoIid)

\* the selections name what is loaded
SelectionValid ==
    /\ selected_testlab_iid = NoIid \/ selected_testlab_iid \in DOMAIN testlab_record_map
    /\ \/ selected_reconstructed_iid = NoIid
       \/ FindReconstructed(reconstructed_files, selected_reconstructed_iid) # NoRecord

(* C25: in every state the testlab selection is None or a key of the map    *)
(* and the reconstructed selection is None or names an entry of             *)
(* reconstructed_files; clear_reconstructed_files leaves no reconstructed   *)
(* selection and no file, and the testlab selection and map as they were;   *)
(* load_testlab_file, when a file is named, leaves no testlab selection,    *)
(* whether the load fails or not, and never touches the reconstructed side. *)
C25_Selection ==
    /\ []SelectionValid
    /\ [][/\ clear_reconstructed_files =>
                /\ selected_reconstructed_iid' = NoIid
                /\ reconstructed_files' = <<>>
                /\ UNCHANGED <<selected_testlab_iid, testlab_record_map>>
          /\ load_testlab_file =>
                /\ UNCHANGED <<selected_reconstructed_iid, reconstructed_files, recon_tree>>
                /\ \/ selected_testlab_iid' = NoIid
                   \/ UNCHANGED <<selected_testlab_iid, testlab_record_map,
                                  testlab_file_type, dialog>>]_vars

\* files were loaded and cleared while a testlab record stays selected
C25_Witness ==
    /\ reconstructed_file_counter > 0
    /\ reconstructed_files = <<>>
    /\ selected_reconstructed_iid = NoIid
    /\ selected_testlab_iid \in DOMAIN testlab_record_map

=============================================================================
